---------------------------- MODULE Spec2Model ----------------------------
(***************************************************************************)
(* Balance Sheet Buddy: the classification pipeline of app.py (Analyze     *)
(* button), the model-response table parser of outputs.py and the status   *)
(* rule, as a state machine.                                               *)
(*                                                                         *)
(* Text is modelled as sequences of one-character strings, so that         *)
(* lower(), strip() and the substring test `in` are computed and not       *)
(* assumed.  A response text is a sequence of lines; a line is the         *)
(* sequence of its segments between pipe characters (a line with k pipes   *)
(* has k+1 segments).                                                      *)
(***************************************************************************)
EXTENDS Integers, Sequences, FiniteSets, TLC

VARIABLES
    pc,                     \* position inside the analyze_button block of main
    tb_merged,              \* local: ledger table after merge_with_mapping
    classification_result,  \* local: text returned by call_claude, or None
    classification_df,      \* local: table built by step 5
    excel_output,           \* local: workbook built by step 5
    reconciliation_result,  \* local: text of outputs B and C, or None
    error,                  \* what the run reported: "none", "stopped", "exception"
    session_state,          \* st.session_state
    session_files,          \* .sessions/<id>.json on the server, by session id
    pre_state,              \* history: st.session_state when Analyze was pressed
    run,                    \* number of Analyze presses so far
    infer,                  \* inputs and results of the status rule (SpecInfer)
    proc                    \* arguments and results of the processor.py calls

vars ==
    <<pc, tb_merged, classification_result, classification_df, excel_output,
      reconciliation_result, error, session_state, session_files, pre_state,
      run, infer, proc>>

\* Keywords tested by substring in the parser and the status rule
kw_account ==
    <<"a", "c", "c", "o", "u", "n", "t">>
kw_balance ==
    <<"b", "a", "l", "a", "n", "c", "e">>
kw_status ==
    <<"s", "t", "a", "t", "u", "s">>
kw_commentary ==
    <<"c", "o", "m", "m", "e", "n", "t", "a", "r", "y">>
kw_type ==
    <<"t", "y", "p", "e">>
kw_amount ==
    <<"a", "m", "o", "u", "n", "t">>
kw_category ==
    <<"c", "a", "t", "e", "g", "o", "r", "y">>
kw_sub ==
    <<"s", "u", "b">>
kw_subcategory ==
    <<"s", "u", "b", "c", "a", "t", "e", "g", "o", "r", "y">>
kw_sub_category_dash ==
    <<"s", "u", "b", "-", "c", "a", "t", "e", "g", "o", "r", "y">>
kw_sub_category_space ==
    <<"s", "u", "b", " ", "c", "a", "t", "e", "g", "o", "r", "y">>
kw_comment ==
    <<"c", "o", "m", "m", "e", "n", "t">>
kw_asset ==
    <<"a", "s", "s", "e", "t">>
kw_contra ==
    <<"c", "o", "n", "t", "r", "a">>
kw_liability ==
    <<"l", "i", "a", "b", "i", "l", "i", "t", "y">>
kw_equity ==
    <<"e", "q", "u", "i", "t", "y">>
kw_clearing ==
    <<"c", "l", "e", "a", "r", "i", "n", "g">>

\* Canonical column names and cell values written by the code
col_Account ==
    <<"A", "c", "c", "o", "u", "n", "t">>
col_Balance_Type ==
    <<"B", "a", "l", "a", "n", "c", "e", "_", "T", "y", "p", "e">>
col_Amount ==
    <<"A", "m", "o", "u", "n", "t">>
col_Category ==
    <<"C", "a", "t", "e", "g", "o", "r", "y">>
col_Subcategory ==
    <<"S", "u", "b", "c", "a", "t", "e", "g", "o", "r", "y">>
col_Commentary ==
    <<"C", "o", "m", "m", "e", "n", "t", "a", "r", "y">>
col_Status ==
    <<"S", "t", "a", "t", "u", "s">>
PASS ==
    <<"P", "A", "S", "S">>
MISMATCH ==
    <<"M", "I", "S", "M", "A", "T", "C", "H">>
Debit ==
    <<"D", "e", "b", "i", "t">>
Credit ==
    <<"C", "r", "e", "d", "i", "t">>
Zero ==
    <<"Z", "e", "r", "o">>
Mixed ==
    <<"M", "i", "x", "e", "d">>
txt_with ==
    <<" ", "w", "i", "t", "h", " ">>
txt_correct ==
    <<" ", "b", "a", "l", "a", "n", "c", "e", " ", "-", " ", "C", "o", "r", "r", "e", "c", "t">>
txt_opposite ==
    <<" ", "b", "a", "l", "a", "n", "c", "e", " ", "-", " ", "S", "h", "o", "u", "l", "d", " ", "b", "e", " ", "o", "p", "p", "o", "s", "i", "t", "e">>
txt_review ==
    <<" ", "-", " ", "R", "e", "v", "i", "e", "w", " ", "r", "e", "q", "u", "i", "r", "e", "d">>
txt_nan ==
    <<"n", "a", "n">>

\* Sample ledger accounts and categories
acct_cash ==
    <<"1", "0", "0", "0", " ", "C", "a", "s", "h">>
acct_ap ==
    <<"2", "0", "0", "0", " ", "A", "P">>
cat_Asset ==
    <<"A", "s", "s", "e", "t">>
cat_Liability ==
    <<"L", "i", "a", "b", "i", "l", "i", "t", "y">>
cat_ContraAsset ==
    <<"C", "o", "n", "t", "r", "a", "-", "A", "s", "s", "e", "t">>
cat_CurrentAssets ==
    <<"C", "u", "r", "r", "e", "n", "t", " ", "A", "s", "s", "e", "t", "s">>
cat_LIABILITY ==
    <<"L", "I", "A", "B", "I", "L", "I", "T", "Y">>
cat_Equity ==
    <<"O", "w", "n", "e", "r", " ", "E", "q", "u", "i", "t", "y">>
cat_Clearing ==
    <<"C", "l", "e", "a", "r", "i", "n", "g">>
cat_ClearingAsset ==
    <<"C", "l", "e", "a", "r", "i", "n", "g", " ", "A", "s", "s", "e", "t">>
cat_Unmapped ==
    <<"U", "n", "m", "a", "p", "p", "e", "d">>
cat_Expense ==
    <<"E", "x", "p", "e", "n", "s", "e">>
sub_Current ==
    <<"C", "u", "r", "r", "e", "n", "t">>
sub_Unknown ==
    <<"U", "n", "k", "n", "o", "w", "n">>

\* ------------------------------------------------------------------------
\* Strings
\* ------------------------------------------------------------------------
UpperLetters ==
    <<"A", "B", "C", "D", "E", "F", "G", "H", "I", "J", "K", "L", "M",
      "N", "O", "P", "Q", "R", "S", "T", "U", "V", "W", "X", "Y", "Z">>

LowerLetters ==
    <<"a", "b", "c", "d", "e", "f", "g", "h", "i", "j", "k", "l", "m",
      "n", "o", "p", "q", "r", "s", "t", "u", "v", "w", "x", "y", "z">>

\* each upper-case letter's lower-case letter
UpperToLower ==
    [c \in {UpperLetters[i] : i \in 1..Len(UpperLetters)} |->
        LowerLetters[CHOOSE i \in 1..Len(UpperLetters) : UpperLetters[i] = c]]

\* str.lower() on one character
LowerChar(c) ==
    IF c \in DOMAIN UpperToLower THEN UpperToLower[c] ELSE c

\* str.lower()
lower(s) ==
    [i \in 1..Len(s) |-> LowerChar(s[i])]

\* the characters str.strip() removes and the regex class \s matches
Whitespace ==
    {" ", "\t"}

RECURSIVE lstrip(_)
lstrip(s) ==
    IF s # <<>> /\ Head(s) \in Whitespace THEN lstrip(Tail(s)) ELSE s

RECURSIVE rstrip(_)
rstrip(s) ==
    IF s # <<>> /\ s[Len(s)] \in Whitespace
    THEN rstrip(SubSeq(s, 1, Len(s) - 1))
    ELSE s

\* str.strip()
strip(s) ==
    rstrip(lstrip(s))

\* Python's `sub in s` on strings
In(sub, s) ==
    \E i \in 0..(Len(s) - Len(sub)) : SubSeq(s, i + 1, i + Len(sub)) = sub

\* [f(x) for x in xs]
RECURSIVE MapStrip(_)
MapStrip(xs) ==
    IF xs = <<>> THEN <<>> ELSE <<strip(Head(xs))>> \o MapStrip(Tail(xs))

\* number of positions of xs holding x
Count(xs, x) ==
    Cardinality({i \in 1..Len(xs) : xs[i] = x})

\* NaN / None of a table cell: no character sequence equals it
NaN ==
    <<"NaN">>

\* the value None returned by call_claude on failure
None ==
    << << <<"None">> >> >>

\* ------------------------------------------------------------------------
\* outputs.parse_claude_table_response
\* ------------------------------------------------------------------------
\* pd.DataFrame()
EmptyDF ==
    [columns |-> <<>>, rows |-> <<>>]

\* '|' in line
HasPipe(line) ==
    Len(line) >= 2

HeaderKeywords ==
    {kw_account, kw_balance, kw_status, kw_commentary}

\* '|' in line and any(keyword in line.lower() for keyword in [...]):
\* a keyword holds no pipe, so it lies within one segment
IsHeaderCandidate(line) ==
    /\ HasPipe(line)
    /\ LET line_lower == [i \in 1..Len(line) |-> lower(line[i])]
       IN  \E kw \in HeaderKeywords :
              \E i \in 1..Len(line_lower) : In(kw, line_lower[i])

\* response_text.strip().split('\n'): leading and trailing blank lines go
RECURSIVE DropLeadingBlank(_)
DropLeadingBlank(text) ==
    IF Len(text) > 1 /\ Len(Head(text)) = 1 /\ strip(Head(text)[1]) = <<>>
    THEN DropLeadingBlank(Tail(text))
    ELSE text

RECURSIVE DropTrailingBlank(_)
DropTrailingBlank(text) ==
    IF Len(text) > 1 /\ Len(text[Len(text)]) = 1 /\ strip(text[Len(text)][1]) = <<>>
    THEN DropTrailingBlank(SubSeq(text, 1, Len(text) - 1))
    ELSE text

SplitLines(text) ==
    DropTrailingBlank(DropLeadingBlank(text))

\* the scan for the header: index of the first candidate from line i on,
\* 0 for table_start = None
RECURSIVE ScanForHeader(_, _)
ScanForHeader(lines, i) ==
    IF i > Len(lines) THEN 0
    ELSE IF IsHeaderCandidate(lines[i]) THEN i
    ELSE ScanForHeader(lines, i + 1)

TableStart(lines) ==
    ScanForHeader(lines, 1)

SeparatorChars ==
    Whitespace \cup {"-", ":"}

\* re.match(r'^[\s\-|:]+$', line) on a line that holds a pipe
IsSeparatorLine(line) ==
    \A i \in 1..Len(line) : \A j \in 1..Len(line[i]) : line[i][j] \in SeparatorChars

\* line.strip(), then one leading and one trailing pipe removed
CleanLine(line) ==
    LET noLead == IF Len(line) >= 2 /\ strip(line[1]) = <<>>
                  THEN Tail(line) ELSE line
    IN  IF Len(noLead) >= 2 /\ strip(noLead[Len(noLead)]) = <<>>
        THEN SubSeq(noLead, 1, Len(noLead) - 1)
        ELSE noLead

RECURSIVE TableLines(_)
TableLines(lines) ==
    IF lines = <<>> THEN <<>>
    ELSE IF HasPipe(Head(lines)) /\ ~IsSeparatorLine(Head(lines))
         THEN <<CleanLine(Head(lines))>> \o TableLines(Tail(lines))
         ELSE TableLines(Tail(lines))

\* headers = [h.strip() for h in ...split('|')]; headers = [h for h in headers if h]
ParseHeaders(line) ==
    SelectSeq(MapStrip(line), LAMBDA h : h # <<>>)

\* mutant of ParseRow: a short row is not padded
ParseRow_NoPad(line, n) ==
    LET cells == MapStrip(line)
    IN  IF Len(cells) >= n THEN SubSeq(cells, 1, n) ELSE cells

\* one data row: truncated to the headers, or right-padded with ''
ParseRow(line, n) ==
    LET cells == MapStrip(line)
    IN  IF Len(cells) >= n
        THEN SubSeq(cells, 1, n)
        ELSE cells \o [i \in 1..(n - Len(cells)) |-> <<>>]

RECURSIVE ParseRows(_, _)
ParseRows(lines, n) ==
    IF lines = <<>> THEN <<>>
    ELSE <<ParseRow(Head(lines), n)>> \o ParseRows(Tail(lines), n)

\* mutant of CanonicalName: the status test comes first
CanonicalName_StatusFirst(col) ==
    IF In(kw_status, lower(col)) THEN col_Status
    ELSE IF In(kw_account, lower(col)) THEN col_Account
    ELSE col

\* the if/elif chain that standardizes one column name
CanonicalName(col) ==
    LET col_lower == lower(col)
    IN  IF In(kw_account, col_lower) THEN col_Account
        ELSE IF In(kw_balance, col_lower) /\ In(kw_type, col_lower) THEN col_Balance_Type
        ELSE IF In(kw_amount, col_lower) THEN col_Amount
        ELSE IF In(kw_category, col_lower) /\ ~In(kw_sub, col_lower) THEN col_Category
        ELSE IF \/ In(kw_subcategory, col_lower)
                \/ In(kw_sub_category_dash, col_lower)
                \/ In(kw_sub_category_space, col_lower) THEN col_Subcategory
        ELSE IF In(kw_comment, col_lower) THEN col_Commentary
        ELSE IF In(kw_status, col_lower) THEN col_Status
        ELSE col

parse_claude_table_response(response_text) ==
    LET lines       == SplitLines(response_text)
        table_start == TableStart(lines)
    IN  IF table_start = 0 THEN EmptyDF
        ELSE
          LET table_lines == TableLines(SubSeq(lines, table_start, Len(lines)))
          IN  IF Len(table_lines) < 2 THEN EmptyDF
              ELSE
                LET headers == ParseHeaders(table_lines[1])
                    rows    == ParseRows(Tail(table_lines), Len(headers))
                IN  IF rows = <<>> THEN EmptyDF
                    ELSE [columns |-> [i \in 1..Len(headers) |-> CanonicalName(headers[i])],
                          rows    |-> rows]

\* ------------------------------------------------------------------------
\* Step 5 of main: assembling the classification records
\* ------------------------------------------------------------------------
\* a DataFrame variable holding None
None_df ==
    [columns |-> <<"None">>, rows |-> <<>>]

Range(xs) ==
    {xs[i] : i \in 1..Len(xs)}

\* str(value) of a cell
Str(v) ==
    IF v = NaN THEN txt_nan ELSE v

\* columns of the table returned by processor.merge_with_mapping
LedgerColumns ==
    <<"Account", "Debit", "Credit", "Category", "Subcategory">>

\* mutant of InlineBalanceType: labels a row with both sides nonzero Mixed
InlineBalanceType_Mixed(row) ==
    IF row.Debit > 0 /\ row.Credit = 0 THEN Debit
    ELSE IF row.Credit > 0 /\ row.Debit = 0 THEN Credit
    ELSE IF row.Debit = 0 /\ row.Credit = 0 THEN Zero
    ELSE Mixed

\* 'Debit' if row['Debit'] > 0 else 'Credit' if row['Credit'] > 0 else 'Zero'
InlineBalanceType(row) ==
    IF row.Debit > 0 THEN Debit
    ELSE IF row.Credit > 0 THEN Credit
    ELSE Zero

\* row['Debit'] if row['Debit'] > 0 else row['Credit']
InlineAmount(row) ==
    IF row.Debit > 0 THEN row.Debit ELSE row.Credit

\* mutant of infer_status: the asset rule without its 'contra' exclusion
infer_status_ignores_contra(row) ==
    LET category     == lower(Str(row.Category))
        balance_type == InlineBalanceType(row)
    IN  IF In(kw_asset, category)
        THEN (IF balance_type = Debit THEN PASS ELSE MISMATCH)
        ELSE IF In(kw_liability, category) \/ In(kw_equity, category)
        THEN (IF balance_type = Credit THEN PASS ELSE MISMATCH)
        ELSE IF In(kw_clearing, category)
        THEN (IF balance_type = Zero THEN PASS ELSE MISMATCH)
        ELSE PASS

\* infer_status of the fallback branch
infer_status(row) ==
    LET category     == lower(Str(row.Category))
        balance_type == InlineBalanceType(row)
    IN  IF In(kw_asset, category) /\ ~In(kw_contra, category)
        THEN (IF balance_type = Debit THEN PASS ELSE MISMATCH)
        ELSE IF In(kw_liability, category) \/ In(kw_equity, category)
        THEN (IF balance_type = Credit THEN PASS ELSE MISMATCH)
        ELSE IF In(kw_clearing, category)
        THEN (IF balance_type = Zero THEN PASS ELSE MISMATCH)
        ELSE PASS

\* infer_status of the merge branch: keeps a Status that is not NaN
infer_status_fill(row) ==
    IF row.Status # NaN THEN row.Status
    ELSE
      LET category     == lower(Str(row.Category))
          balance_type == InlineBalanceType(row)
      IN  IF In(kw_asset, category) /\ ~In(kw_contra, category)
          THEN (IF balance_type = Debit THEN PASS ELSE MISMATCH)
          ELSE IF In(kw_liability, category) \/ In(kw_equity, category)
          THEN (IF balance_type = Credit THEN PASS ELSE MISMATCH)
          ELSE IF In(kw_clearing, category)
          THEN (IF balance_type = Zero THEN PASS ELSE MISMATCH)
          ELSE PASS

\* not df.empty and 'Status' in df.columns and df['Status'].notna().any()
\* (the parser's cells are strings, '' included, so notna() is True for each)
has_valid_status(df) ==
    /\ df.columns # <<>> /\ df.rows # <<>>
    /\ col_Status \in Range(df.columns)
    /\ \E i \in 1..Len(df.rows) :
          df.rows[i][CHOOSE k \in 1..Len(df.columns) : df.columns[k] = col_Status] # NaN

\* the column list handed to classification_df[[...]]
SelectedColumns(df) ==
    IF col_Commentary \in Range(df.columns)
    THEN <<col_Account, col_Status, col_Balance_Type, col_Commentary>>
    ELSE <<col_Account, col_Status, col_Balance_Type>>

\* df[[...]] raises KeyError for a label that is no column; a label carried by
\* two columns cannot serve as the truth value (Status) or as merge key (Account)
SelectionRaises(df) ==
    \/ \E c \in Range(SelectedColumns(df)) : c \notin Range(df.columns)
    \/ \E c \in Range(SelectedColumns(df)) : Count(df.columns, c) > 1

Cell(df, i, name) ==
    df.rows[i][CHOOSE k \in 1..Len(df.columns) : df.columns[k] = name]

\* the right-hand table of the merge, one record per parsed row
RightRows(df) ==
    [i \in 1..Len(df.rows) |->
        IF col_Commentary \in Range(df.columns)
        THEN [Account      |-> Cell(df, i, col_Account),
              Status       |-> Cell(df, i, col_Status),
              Balance_Type |-> Cell(df, i, col_Balance_Type),
              Commentary   |-> Cell(df, i, col_Commentary)]
        ELSE [Account      |-> Cell(df, i, col_Account),
              Status       |-> Cell(df, i, col_Status),
              Balance_Type |-> Cell(df, i, col_Balance_Type)]]

\* the cells a left row gets when no right row has its Account
MissingRight(withCommentary) ==
    IF withCommentary
    THEN [Status |-> NaN, Balance_Type |-> NaN, Commentary |-> NaN]
    ELSE [Status |-> NaN, Balance_Type |-> NaN]

\* tb_merged.merge(right, on='Account', how='left'): left order kept, one output
\* row per matching right row, in right order, and one NaN row when none matches
RECURSIVE LeftMerge(_, _, _)
LeftMerge(left, right, withCommentary) ==
    IF left = <<>> THEN <<>>
    ELSE
      LET l       == Head(left)
          matches == SelectSeq(right, LAMBDA r : r.Account = l.Account)
          joined  == IF matches = <<>>
                     THEN <<l @@ MissingRight(withCommentary)>>
                     ELSE [i \in 1..Len(matches) |-> l @@ matches[i]]
      IN  joined \o LeftMerge(Tail(left), right, withCommentary)

\* the merge branch (has_valid_status is True)
MergeBranch(tb, df) ==
    LET withCommentary == col_Commentary \in Range(df.columns)
        merged == LeftMerge(tb, RightRows(df), withCommentary)
        filled == IF \E i \in 1..Len(merged) : merged[i].Status = NaN
                  THEN [i \in 1..Len(merged) |->
                          [merged[i] EXCEPT !.Status = infer_status_fill(merged[i])]]
                  ELSE merged
    IN  [columns |-> LedgerColumns \o
                     (IF withCommentary
                      THEN <<"Status", "Balance_Type", "Commentary">>
                      ELSE <<"Status", "Balance_Type">>),
         rows    |-> filled]

\* the fallback branch: tb_merged.copy() with Status, Balance_Type and Amount
FallbackBranch(tb) ==
    [columns |-> LedgerColumns \o <<"Status", "Balance_Type", "Amount">>,
     rows    |-> [i \in 1..Len(tb) |->
                    tb[i] @@ [Status       |-> infer_status(tb[i]),
                              Balance_Type |-> InlineBalanceType(tb[i]),
                              Amount       |-> InlineAmount(tb[i])]]]

\* "Ensure required columns exist even if parsed successfully"
EnsureRequiredColumns(df) ==
    LET withBT ==
          IF "Balance_Type" \notin Range(df.columns)
          THEN [columns |-> df.columns \o <<"Balance_Type">>,
                rows    |-> [i \in 1..Len(df.rows) |->
                               df.rows[i] @@ [Balance_Type |-> InlineBalanceType(df.rows[i])]]]
          ELSE df
    IN  IF "Amount" \notin Range(withBT.columns)
        THEN [columns |-> withBT.columns \o <<"Amount">>,
              rows    |-> [i \in 1..Len(withBT.rows) |->
                             withBT.rows[i] @@ [Amount |-> InlineAmount(withBT.rows[i])]]]
        ELSE withBT

\* outputs.create_classification_excel_from_df.generate_commentary
generate_commentary(row) ==
    IF row.Status = PASS
    THEN Str(row.Category) \o txt_with \o Str(row.Balance_Type) \o txt_correct
    ELSE IF row.Status = MISMATCH
    THEN Str(row.Category) \o txt_with \o Str(row.Balance_Type) \o txt_opposite
    ELSE Str(row.Category) \o txt_review

\* the ordered columns of the classification workbook
required_cols ==
    <<"Account", "Balance_Type", "Amount", "Category", "Subcategory", "Status", "Commentary">>

\* outputs.create_classification_excel_from_df: the sheet's cells (styling left out)
create_classification_excel_from_df(df) ==
    LET withC == IF "Commentary" \notin Range(df.columns)
                 THEN [columns |-> df.columns \o <<"Commentary">>,
                       rows    |-> [i \in 1..Len(df.rows) |->
                                      df.rows[i] @@ [Commentary |-> generate_commentary(df.rows[i])]]]
                 ELSE df
        output_cols == SelectSeq(required_cols, LAMBDA c : c \in Range(withC.columns))
    IN  [columns |-> output_cols,
         rows    |-> [i \in 1..Len(withC.rows) |->
                        [c \in Range(output_cols) |-> withC.rows[i][c]]]]

\* a text for which `if classification_result:` is false
Falsy(text) ==
    text = None \/ text = << << <<>> >> >>

\* Step 5 as a function of its inputs: raised, or the table and the workbook
Step5(tb, text) ==
    IF text = None
    THEN [raised |-> TRUE, classification_df |-> None_df, excel_output |-> None_df]
    ELSE
      LET parsed == parse_claude_table_response(text)
      IN  IF parsed.rows # <<>> /\ Count(parsed.columns, col_Status) > 1
          THEN [raised |-> TRUE, classification_df |-> None_df, excel_output |-> None_df]
          ELSE IF has_valid_status(parsed) /\ SelectionRaises(parsed)
          THEN [raised |-> TRUE, classification_df |-> None_df, excel_output |-> None_df]
          ELSE
            LET branch == IF has_valid_status(parsed)
                          THEN MergeBranch(tb.rows, parsed)
                          ELSE FallbackBranch(tb.rows)
                df     == EnsureRequiredColumns(branch)
            IN  [raised            |-> FALSE,
                 classification_df |-> df,
                 excel_output      |-> create_classification_excel_from_df(df)]

\* Segments of the sample response lines (text between two pipes, unstripped)
hdr_Account ==
    <<"A", "c", "c", "o", "u", "n", "t", " ">>
hdr_Status ==
    <<" ", "S", "t", "a", "t", "u", "s", " ">>
hdr_STATUS ==
    <<"S", "T", "A", "T", "U", "S">>
hdr_BalanceType ==
    <<" ", "B", "a", "l", "a", "n", "c", "e", " ", "T", "y", "p", "e", " ">>
hdr_Commentary ==
    <<" ", "C", "o", "m", "m", "e", "n", "t", "a", "r", "y">>
cell_dashes ==
    <<"-", "-", "-">>
cell_cash ==
    <<" ", "1", "0", "0", "0", " ", "C", "a", "s", "h", " ">>
cell_ap ==
    <<"2", "0", "0", "0", " ", "A", "P">>
cell_PASS ==
    <<" ", "P", "A", "S", "S", " ">>
cell_MISMATCH ==
    <<"M", "I", "S", "M", "A", "T", "C", "H">>
cell_Debit ==
    <<" ", "D", "e", "b", "i", "t">>
cell_Credit ==
    <<"C", "r", "e", "d", "i", "t", " ">>
cell_blank ==
    <<" ">>
seg_prose ==
    <<"S", "t", "a", "t", "u", "s", " ", "r", "e", "p", "o", "r", "t", " ", "f", "o", "r", " ", "t", "h", "e", " ", "a", "c", "c", "o", "u", "n", "t", "s">>

\* ------------------------------------------------------------------------
\* Inputs
\* ------------------------------------------------------------------------
MaxRows ==
    2

MaxLines ==
    3

MaxRuns ==
    2

\* the category the mapping table gives each sample account
CategoryOf(account) ==
    IF account = acct_cash THEN cat_Asset ELSE cat_Liability

\* (debit, credit) pairs that survive clean_data: never both 0
AmountPairs ==
    {<<500, 0>>, <<0, 300>>, <<500, 300>>}

LedgerRows ==
    {[Account |-> a, Debit |-> p[1], Credit |-> p[2],
      Category |-> CategoryOf(a), Subcategory |-> sub_Current] :
        a \in {acct_cash, acct_ap}, p \in AmountPairs}

SeqsUpTo(S, n) ==
    UNION {[1..k -> S] : k \in 1..n}

\* ledger tables with at least one account
Ledgers ==
    {[columns |-> LedgerColumns, rows |-> r] : r \in SeqsUpTo(LedgerRows, MaxRows)}

\* lines a response may hold: prose, headers, a separator, data rows
ResponseLines ==
    { <<seg_prose>>,
      <<<<>>, hdr_Account, hdr_Status, hdr_BalanceType, hdr_Commentary, <<>>>>,
      <<hdr_Account, hdr_STATUS, hdr_BalanceType>>,
      <<hdr_Account, hdr_Status>>,
      <<hdr_Account, hdr_BalanceType>>,
      <<<<>>, cell_dashes, cell_dashes, cell_dashes, cell_blank>>,
      <<cell_cash, cell_PASS, cell_Debit>>,
      <<<<>>, cell_cash, cell_MISMATCH, cell_Credit, <<>>>>,
      <<cell_ap, cell_blank, cell_Credit>> }

Texts ==
    SeqsUpTo(ResponseLines, MaxLines)

\* the trial balances and responses of the application runs
SampleLedgers ==
    { [columns |-> LedgerColumns,
       rows |-> <<[Account |-> acct_cash, Debit |-> 500, Credit |-> 0,
                   Category |-> cat_Asset, Subcategory |-> sub_Current],
                  [Account |-> acct_ap, Debit |-> 300, Credit |-> 0,
                   Category |-> cat_Liability, Subcategory |-> sub_Current]>>],
      [columns |-> LedgerColumns,
       rows |-> <<[Account |-> acct_ap, Debit |-> 0, Credit |-> 300,
                   Category |-> cat_Liability, Subcategory |-> sub_Current]>>] }

SampleResponses ==
    { << <<seg_prose>> >>,
      << <<hdr_Account, hdr_STATUS, hdr_BalanceType>>,
         <<cell_cash, cell_PASS, cell_Debit>> >>,
      << <<hdr_Account, hdr_Status>>, <<cell_ap, cell_PASS>> >> }

\* what call_claude can hand back on failure or with nothing streamed
FailedResponses ==
    {None, << << <<>> >> >>}

\* ------------------------------------------------------------------------
\* main: session state and the analyze_button block
\* ------------------------------------------------------------------------
\* st.session_state after the first pass through main (no session id in the URL)
InitialSessionState ==
    [analysis_complete     |-> FALSE,
     classification_result |-> None,
     classification_df     |-> None_df,
     excel_output          |-> None_df,
     reconciliation_result |-> None,
     tb_merged             |-> None_df,
     current_session_id    |-> 0,
     session_auto_loaded   |-> TRUE]

\* a session id with no file behind it
NoFile ==
    [saved |-> FALSE]

SessionIds ==
    1..MaxRuns

\* the status rule's inputs are not part of the application runs
NoInfer ==
    [done |-> {}]

\* no processor.py call is part of these runs
NoProc ==
    [done |-> {}]

\* the button is pressed: the script reruns and enters the try block
AnalyzePress ==
    /\ pc = "idle"
    /\ run < MaxRuns
    /\ pc' = "step1"
    /\ run' = run + 1
    /\ pre_state' = session_state
    /\ error' = "none"
    /\ tb_merged' = None_df
    /\ classification_result' = None
    /\ classification_df' = None_df
    /\ excel_output' = None_df
    /\ reconciliation_result' = None
    /\ UNCHANGED <<session_state, session_files, infer, proc>>

\* mutant of Step1to3_Load: puts tb_merged into the session as soon as it is built
Step1to3_Load_StoresEarly ==
    /\ pc = "step1"
    /\ \E tb \in SampleLedgers :
          /\ tb_merged' = tb
          /\ session_state' = [session_state EXCEPT !.tb_merged = tb]
    /\ pc' = "step4"
    /\ UNCHANGED <<classification_result, classification_df, excel_output,
                   reconciliation_result, error, session_files, pre_state, run, infer, proc>>

\* steps 1 to 3: parse_trial_balance, clean_data, merge_with_mapping, format_for_claude
Step1to3_Load ==
    /\ pc = "step1"
    /\ \E tb \in SampleLedgers : tb_merged' = tb
    /\ pc' = "step4"
    /\ UNCHANGED <<classification_result, classification_df, excel_output,
                   reconciliation_result, error, session_state, session_files,
                   pre_state, run, infer, proc>>

\* a loader or the mapping loader raises: caught by `except Exception`
Step1to3_Raises ==
    /\ pc = "step1"
    /\ error' = "exception"
    /\ pc' = "idle"
    /\ UNCHANGED <<tb_merged, classification_result, classification_df, excel_output,
                   reconciliation_result, session_state, session_files, pre_state,
                   run, infer, proc>>

\* step 4, call_claude streamed a text
Step4_CallClaude ==
    /\ pc = "step4"
    /\ \E text \in SampleResponses : classification_result' = text
    /\ pc' = "step5"
    /\ UNCHANGED <<tb_merged, classification_df, excel_output, reconciliation_result,
                   error, session_state, session_files, pre_state, run, infer, proc>>

\* mutant of Step4_CallFailed: no st.stop(), the run goes on to step 5
Step4_CallFailed_FallsThrough ==
    /\ pc = "step4"
    /\ \E text \in FailedResponses : classification_result' = text
    /\ pc' = "step5"
    /\ UNCHANGED <<tb_merged, classification_df, excel_output, reconciliation_result,
                   error, session_state, session_files, pre_state, run, infer, proc>>

\* step 4, call_claude returned None or '': st.error, then st.stop() ends the script
Step4_CallFailed ==
    /\ pc = "step4"
    /\ \E text \in FailedResponses : classification_result' = text
    /\ error' = "stopped"
    /\ pc' = "idle"
    /\ UNCHANGED <<tb_merged, classification_df, excel_output, reconciliation_result,
                   session_state, session_files, pre_state, run, infer, proc>>

\* step 5 completes
Step5_Assemble ==
    /\ pc = "step5"
    /\ LET result == Step5(tb_merged, classification_result)
       IN  /\ ~result.raised
           /\ classification_df' = result.classification_df
           /\ excel_output' = result.excel_output
    /\ pc' = "step6"
    /\ UNCHANGED <<tb_merged, classification_result, reconciliation_result, error,
                   session_state, session_files, pre_state, run, infer, proc>>

\* step 5 raises: caught by `except Exception`, the error is shown
Step5_Raises ==
    /\ pc = "step5"
    /\ Step5(tb_merged, classification_result).raised
    /\ error' = "exception"
    /\ pc' = "idle"
    /\ UNCHANGED <<tb_merged, classification_result, classification_df, excel_output,
                   reconciliation_result, session_state, session_files, pre_state,
                   run, infer, proc>>

\* step 6: outputs B and C when asked for; its own failures leave None
Step6_Reconciliation ==
    /\ pc = "step6"
    /\ \E r \in {None, << <<seg_prose>> >>} : reconciliation_result' = r
    /\ pc' = "store"
    /\ UNCHANGED <<tb_merged, classification_result, classification_df, excel_output,
                   error, session_state, session_files, pre_state, run, infer, proc>>

\* "Store results in session state"
StoreResults ==
    /\ pc = "store"
    /\ session_state' = [session_state EXCEPT
                            !.analysis_complete     = TRUE,
                            !.classification_result = classification_result,
                            !.classification_df     = classification_df,
                            !.excel_output          = excel_output,
                            !.reconciliation_result = reconciliation_result,
                            !.tb_merged             = tb_merged]
    /\ pc' = "autosave"
    /\ UNCHANGED <<tb_merged, classification_result, classification_df, excel_output,
                   reconciliation_result, error, session_files, pre_state, run, infer, proc>>

\* what auto_save_session writes under 'data'
SessionData(s) ==
    [saved                 |-> TRUE,
     analysis_complete     |-> s.analysis_complete,
     classification_result |-> s.classification_result,
     classification_df     |-> s.classification_df,
     excel_output          |-> s.excel_output,
     reconciliation_result |-> s.reconciliation_result,
     tb_merged             |-> s.tb_merged]

\* auto_save_session(current_session_id): a new id when there is none yet
AutoSave ==
    /\ pc = "autosave"
    /\ LET session_id == IF session_state.current_session_id = 0
                         THEN run
                         ELSE session_state.current_session_id
       IN  /\ session_files' = [session_files EXCEPT ![session_id] = SessionData(session_state)]
           /\ session_state' = [session_state EXCEPT !.current_session_id = session_id]
    /\ pc' = "idle"
    /\ UNCHANGED <<tb_merged, classification_result, classification_df, excel_output,
                   reconciliation_result, error, pre_state, run, infer, proc>>

\* writing the session file raises: caught by `except Exception`
AutoSave_Raises ==
    /\ pc = "autosave"
    /\ error' = "exception"
    /\ pc' = "idle"
    /\ UNCHANGED <<tb_merged, classification_result, classification_df, excel_output,
                   reconciliation_result, session_state, session_files, pre_state,
                   run, infer, proc>>

Init ==
    /\ pc = "idle"
    /\ tb_merged = None_df
    /\ classification_result = None
    /\ classification_df = None_df
    /\ excel_output = None_df
    /\ reconciliation_result = None
    /\ error = "none"
    /\ session_state = InitialSessionState
    /\ session_files = [id \in SessionIds |-> NoFile]
    /\ pre_state = InitialSessionState
    /\ run = 0
    /\ infer = NoInfer
    /\ proc = NoProc

Next ==
    \/ AnalyzePress
    \/ Step1to3_Load
    \/ Step1to3_Raises
    \/ Step4_CallClaude
    \/ Step4_CallFailed
    \/ Step5_Assemble
    \/ Step5_Raises
    \/ Step6_Reconciliation
    \/ StoreResults
    \/ AutoSave
    \/ AutoSave_Raises

Spec ==
    Init /\ [][Next]_vars

\* ------------------------------------------------------------------------
\* Step 5 alone, over every sample ledger and response text
\* ------------------------------------------------------------------------
InitAssemble ==
    /\ pc = "step5"
    /\ tb_merged \in Ledgers
    /\ classification_result \in Texts
    /\ classification_df = None_df
    /\ excel_output = None_df
    /\ reconciliation_result = None
    /\ error = "none"
    /\ session_state = InitialSessionState
    /\ session_files = [id \in SessionIds |-> NoFile]
    /\ pre_state = InitialSessionState
    /\ run = 1
    /\ infer = NoInfer
    /\ proc = NoProc

NextAssemble ==
    \/ Step5_Assemble
    \/ Step5_Raises

SpecAssemble ==
    InitAssemble /\ [][NextAssemble]_vars

\* ------------------------------------------------------------------------
\* The status rule alone, over categories, amounts and balance types
\* ------------------------------------------------------------------------
\* processor.get_balance_type
get_balance_type(debit, credit) ==
    IF debit > 0 /\ credit = 0 THEN Debit
    ELSE IF credit > 0 /\ debit = 0 THEN Credit
    ELSE IF debit = 0 /\ credit = 0 THEN Zero
    ELSE Mixed

\* infer_status of outputs.create_classification_excel: reads the row's Balance_Type
infer_status_excel(row) ==
    LET category     == lower(Str(row.Category))
        balance_type == row.Balance_Type
    IN  IF In(kw_asset, category) /\ ~In(kw_contra, category)
        THEN (IF balance_type = Debit THEN PASS ELSE MISMATCH)
        ELSE IF In(kw_liability, category) \/ In(kw_equity, category)
        THEN (IF balance_type = Credit THEN PASS ELSE MISMATCH)
        ELSE IF In(kw_clearing, category)
        THEN (IF balance_type = Zero THEN PASS ELSE MISMATCH)
        ELSE PASS

Categories ==
    {cat_Asset, cat_Liability, cat_ContraAsset, cat_CurrentAssets, cat_LIABILITY,
     cat_Equity, cat_Clearing, cat_ClearingAsset, cat_Unmapped, cat_Expense}

\* debit and credit cells as the loader can produce them
Amounts ==
    {-5, 0, 300, 500}

BalanceTypes ==
    {Debit, Credit, Zero, Mixed, <<>>}

InitInfer ==
    /\ pc = "infer"
    /\ tb_merged = None_df
    /\ classification_result = None
    /\ classification_df = None_df
    /\ excel_output = None_df
    /\ reconciliation_result = None
    /\ error = "none"
    /\ session_state = InitialSessionState
    /\ session_files = [id \in SessionIds |-> NoFile]
    /\ pre_state = InitialSessionState
    /\ run = 0
    /\ proc = NoProc
    /\ \E c \in Categories, d \in Amounts, cr \in Amounts, bt \in BalanceTypes :
          infer = [done |-> {},
                   row  |-> [Account |-> acct_cash, Debit |-> d, Credit |-> cr,
                             Category |-> c, Subcategory |-> sub_Current,
                             Balance_Type |-> bt, Status |-> NaN]]

InferUnchanged ==
    UNCHANGED <<pc, tb_merged, classification_result, classification_df, excel_output,
                reconciliation_result, error, session_state, session_files,
                pre_state, run, proc>>

\* the fallback branch of step 5 applied to the row: Status, Balance_Type, Amount
ApplyFallback ==
    /\ pc = "infer"
    /\ "app" \notin infer.done
    /\ infer' = [done     |-> infer.done \cup {"app"},
                 fallback |-> FallbackBranch(
                                <<[c \in Range(LedgerColumns) |-> infer.row[c]]>>).rows[1]]
                 @@ infer
    /\ InferUnchanged

\* the merge branch's infer_status on the row, whose Status is NaN
ApplyFill ==
    /\ pc = "infer"
    /\ "fill" \notin infer.done
    /\ infer' = [done |-> infer.done \cup {"fill"},
                 fill |-> infer_status_fill(infer.row)] @@ infer
    /\ InferUnchanged

\* create_classification_excel's infer_status on the row
ApplyExcel ==
    /\ pc = "infer"
    /\ "excel" \notin infer.done
    /\ infer' = [done  |-> infer.done \cup {"excel"},
                 excel |-> infer_status_excel(infer.row)] @@ infer
    /\ InferUnchanged

\* processor.get_balance_type on the row's amounts
ApplyGetBalanceType ==
    /\ pc = "infer"
    /\ "balance" \notin infer.done
    /\ infer' = [done    |-> infer.done \cup {"balance"},
                 balance |-> get_balance_type(infer.row.Debit, infer.row.Credit)] @@ infer
    /\ InferUnchanged

NextInfer ==
    \/ ApplyFallback
    \/ ApplyFill
    \/ ApplyExcel
    \/ ApplyGetBalanceType

SpecInfer ==
    InitInfer /\ [][NextInfer]_vars

\* ------------------------------------------------------------------------
\* Properties
\* ------------------------------------------------------------------------
\* the table parse_claude_table_response gave step 5 in this run
ParsedResponse ==
    parse_claude_table_response(classification_result)

\* df holds exactly the ledger rows of tb, one record each, in ledger order
OnePerLedgerRow(df, tb) ==
    /\ Len(df.rows) = Len(tb.rows)
    /\ \A i \in 1..Len(tb.rows) :
          \A c \in Range(LedgerColumns) : df.rows[i][c] = tb.rows[i][c]

\* a parsed table with a Status column holding at least one non-empty value
UsableStatus(df) ==
    /\ df.rows # <<>>
    /\ \E k \in 1..Len(df.columns) :
          /\ df.columns[k] = col_Status
          /\ \E i \in 1..Len(df.rows) : df.rows[i][k] # <<>>

\* the five result fields of the session state named by the Analyze claims
Results(s) ==
    [analysis_complete     |-> s.analysis_complete,
     classification_result |-> s.classification_result,
     classification_df     |-> s.classification_df,
     excel_output          |-> s.excel_output,
     tb_merged             |-> s.tb_merged]

\* the results of the run in progress
ThisRun ==
    [analysis_complete     |-> TRUE,
     classification_result |-> classification_result,
     classification_df     |-> classification_df,
     excel_output          |-> excel_output,
     tb_merged             |-> tb_merged]

\* C1 (as stated): once step 5 has run on a loaded ledger and any response text,
\* no error was reported and a classification record set exists.
C1_AssembleNeverFails ==
    (pc # "step5") => (error = "none" /\ classification_df # None_df)

\* C2 (as stated): when the response has no usable Status column, step 5 ends
\* with one record per ledger row, in ledger order, each with a non-empty Status.
C2_FallbackGuarantee ==
    (pc # "step5" /\ ~UsableStatus(ParsedResponse)) =>
        /\ error = "none"
        /\ OnePerLedgerRow(classification_df, tb_merged)
        /\ \A i \in 1..Len(classification_df.rows) :
              classification_df.rows[i].Status \notin {NaN, <<>>}

C4_AnalyzeAllOrNothing ==
    (run > 0) =>
        \/ /\ Results(session_state) = ThisRun
           /\ pc \in {"autosave", "idle"}
        \/ /\ Results(session_state) = Results(pre_state)
           /\ (pc = "idle" => error # "none")

\* C4 witness: a second run that failed in step 5 on another trial balance after
\* a first run stored its results
C4_Witness ==
    /\ pc = "idle"
    /\ run = 2
    /\ error = "exception"
    /\ classification_result \notin FailedResponses
    /\ pre_state.analysis_complete
    /\ tb_merged # session_state.tb_merged
    /\ Results(session_state) = Results(pre_state)

\* C5 (as stated): in the merge branch the assembled table has exactly one
\* record per ledger row, in ledger order.
C5_MergeOnePerLedgerRow ==
    (pc = "step6" /\ has_valid_status(ParsedResponse)) =>
        OnePerLedgerRow(classification_df, tb_merged)

\* C6 (as stated): in the merge branch every assembled record ends with a
\* non-empty Status.
C6_MergeStatusFilled ==
    (pc = "step6" /\ has_valid_status(ParsedResponse)) =>
        \A i \in 1..Len(classification_df.rows) :
            /\ classification_df.rows[i].Status # NaN
            /\ classification_df.rows[i].Status # <<>>

\* C7 (as stated): every assembled record has Amount equal to Debit when
\* Debit > 0 and to Credit otherwise, and has both Debit > 0 and Credit > 0
\* only when its Balance_Type is Mixed.
C7_AmountInvariant ==
    (pc = "step6") =>
        \A i \in 1..Len(classification_df.rows) :
            LET r == classification_df.rows[i]
            IN  /\ (r.Debit > 0 => r.Amount = r.Debit)
                /\ (~(r.Debit > 0) => r.Amount = r.Credit)
                /\ ((r.Debit > 0 /\ r.Credit > 0) => r.Balance_Type = Mixed)

\* C8 (as stated): no assembled record lacks Balance_Type or Amount.
C8_BalanceTypeAndAmountPresent ==
    (pc = "step6") =>
        \A i \in 1..Len(classification_df.rows) :
            LET r == classification_df.rows[i]
            IN  /\ "Balance_Type" \in DOMAIN r
                /\ r.Balance_Type # NaN
                /\ "Amount" \in DOMAIN r

\* the rule table of the status inferencer: TRUE for PASS, FALSE for MISMATCH
RuleTablePass(category, balance_type) ==
    LET c == lower(category)
    IN  CASE In(kw_asset, c) /\ ~In(kw_contra, c) -> balance_type = Debit
          [] ~(In(kw_asset, c) /\ ~In(kw_contra, c))
             /\ (In(kw_liability, c) \/ In(kw_equity, c)) -> balance_type = Credit
          [] ~(In(kw_asset, c) /\ ~In(kw_contra, c))
             /\ ~(In(kw_liability, c) \/ In(kw_equity, c))
             /\ In(kw_clearing, c) -> balance_type = Zero
          [] OTHER -> TRUE

Num(n) ==
    [k |-> "num", v |-> n]

float_nan ==
    [k |-> "nan", v |-> 0]

\* df[col] == 0 on one value: false for nan and the infinities
IsZero(x) ==
    x.k = "num" /\ x.v = 0

\* Words of the regular expressions of clean_data
kw_total ==
    <<"t", "o", "t", "a", "l">>

kw_subtotal ==
    <<"s", "u", "b", "t", "o", "t", "a", "l">>

kw_sub_total ==
    <<"s", "u", "b", "-", "t", "o", "t", "a", "l">>

kw_grand_total ==
    <<"g", "r", "a", "n", "d", " ", "t", "o", "t", "a", "l">>

kw_sum ==
    <<"s", "u", "m">>

kw_opening ==
    <<"o", "p", "e", "n", "i", "n", "g">>

\* str.startswith
StartsWith(s, prefix) ==
    Len(s) >= Len(prefix) /\ SubSeq(s, 1, Len(prefix)) = prefix

\* str.contains(r'^\s*total[\s\-]', IGNORECASE): the pattern is anchored at
\* the start of the cell
MatchesTotalStart(account) ==
    LET s == lower(lstrip(Str(account)))
    IN  /\ StartsWith(s, kw_total)
        /\ Len(s) > Len(kw_total)
        /\ s[Len(kw_total) + 1] \in Whitespace \cup {"-"}

\* mutant of MatchesTotalExact: the flag re.IGNORECASE is left out
MatchesTotalExact_CaseSensitive(account) ==
    strip(Str(account)) \in
        {kw_total, kw_subtotal, kw_sub_total, kw_grand_total, kw_sum}

\* str.match(r'^\s*(total|subtotal|sub-total|grand total|sum)\s*$', IGNORECASE)
MatchesTotalExact(account) ==
    lower(strip(Str(account))) \in
        {kw_total, kw_subtotal, kw_sub_total, kw_grand_total, kw_sum}

\* str.contains(r'^\s*opening\s+balance', case=False)
MatchesOpeningBalance(account) ==
    LET s    == lower(lstrip(Str(account)))
        rest == SubSeq(s, Len(kw_opening) + 1, Len(s))
    IN  /\ StartsWith(s, kw_opening)
        /\ rest # <<>>
        /\ Head(rest) \in Whitespace
        /\ StartsWith(lstrip(rest), kw_balance)

\* the row survives the six boolean-mask selections of clean_data:
\* notna(), strip() != '', the two total patterns, both amounts 0, and the
\* opening balance pattern
KeepRow(row) ==
    /\ row.Account # NaN
    /\ strip(Str(row.Account)) # <<>>
    /\ ~MatchesTotalStart(row.Account)
    /\ ~MatchesTotalExact(row.Account)
    /\ ~(IsZero(row.Debit) /\ IsZero(row.Credit))
    /\ ~MatchesOpeningBalance(row.Account)

\* mutant of clean_data: the last surviving row is lost with the old index
clean_data_drops_last(df) ==
    LET kept == SelectSeq(df.rows, KeepRow)
    IN  [columns |-> df.columns,
         rows    |-> IF kept = <<>> THEN kept ELSE SubSeq(kept, 1, Len(kept) - 1)]

\* clean_data: each df = df[mask] builds a new table; reset_index(drop=True)
\* renumbers the rows, which are held here by position
clean_data(df) ==
    [columns |-> df.columns, rows |-> SelectSeq(df.rows, KeepRow)]

\* Sample Account cells of a loaded trial balance
acct_cash_padded ==
    <<" ", " ", "1", "0", "0", "0", " ", "C", "a", "s", "h">>

acct_blank ==
    <<" ", " ">>

acct_Total ==
    <<"T", "o", "t", "a", "l">>

acct_TOTAL_dash ==
    <<"T", "O", "T", "A", "L", " ", "-", " ", "1", "1", "5", "0", "0">>

acct_total_assets ==
    <<" ", "t", "o", "t", "a", "l", " ", "a", "s", "s", "e", "t", "s">>

acct_Totals ==
    <<"T", "o", "t", "a", "l", "s", " ", "2", "0", "2", "4">>

acct_Subtotal ==
    <<"S", "u", "b", "t", "o", "t", "a", "l", " ">>

acct_Subtotal_dash ==
    <<"S", "u", "b", "t", "o", "t", "a", "l", " ", "-", " ", "1", "1", "5", "0", "0">>

acct_GrandTotal ==
    <<"G", "r", "a", "n", "d", " ", "T", "o", "t", "a", "l">>

acct_Sum ==
    <<"S", "U", "M">>

acct_Summary ==
    <<"S", "u", "m", "m", "a", "r", "y", " ", "a", "c", "c", "o", "u", "n", "t">>

acct_Opening ==
    <<"O", "p", "e", "n", "i", "n", "g", " ", "B", "a", "l", "a", "n", "c", "e">>

acct_opening_bf ==
    <<" ", "o", "p", "e", "n", "i", "n", "g", " ", " ", "b", "a", "l", "a", "n", "c", "e", " ", "b", "/", "f">>

acct_OpeningStock ==
    <<"O", "p", "e", "n", "i", "n", "g", " ", "s", "t", "o", "c", "k">>

\* columns of the table returned by parse_trial_balance
TrialBalanceColumns ==
    <<"Account", "Debit", "Credit">>

\* the tables parse_trial_balance can return, of at most MaxRows rows:
\* Account cells null, blank, total-like and ordinary; amounts in hundredths
RawTables ==
    LET accounts == {acct_cash, acct_ap, acct_cash_padded, NaN, <<>>, acct_blank,
                     acct_Total, acct_TOTAL_dash, acct_total_assets, acct_Totals,
                     acct_Subtotal, acct_Subtotal_dash, acct_GrandTotal, acct_Sum,
                     acct_Summary, acct_Opening, acct_opening_bf, acct_OpeningStock}
        amounts  == {<<Num(0), Num(0)>>, <<Num(50000), Num(0)>>,
                     <<Num(0), Num(30000)>>, <<float_nan, Num(0)>>}
        rows     == {[Account |-> a, Debit |-> x[1], Credit |-> x[2]] :
                        a \in accounts, x \in amounts}
    IN  {[columns |-> TrialBalanceColumns, rows |-> rs] :
            rs \in UNION {[1..n -> rows] : n \in 0..MaxRows}}

InitClean ==
    /\ pc = "clean"
    /\ tb_merged = None_df
    /\ classification_result = None
    /\ classification_df = None_df
    /\ excel_output = None_df
    /\ reconciliation_result = None
    /\ error = "none"
    /\ session_state = InitialSessionState
    /\ session_files = [id \in SessionIds |-> NoFile]
    /\ pre_state = InitialSessionState
    /\ run = 0
    /\ infer = NoInfer
    /\ \E t \in RawTables :
          proc = [done |-> {}, before |-> t, tb_df |-> t,
                  tb_df_clean |-> None_df, again |-> None_df]

ProcUnchanged ==
    UNCHANGED <<pc, tb_merged, classification_result, classification_df, excel_output,
                reconciliation_result, error, session_state, session_files,
                pre_state, run, infer>>

\* mutant of ApplyClean: the rows are dropped from the caller's table in place
ApplyClean_InPlace ==
    /\ pc = "clean"
    /\ "clean" \notin proc.done
    /\ proc' = [proc EXCEPT !.done = @ \cup {"clean"},
                            !.tb_df = clean_data(proc.tb_df),
                            !.tb_df_clean = clean_data(proc.tb_df)]
    /\ ProcUnchanged

\* tb_df_clean = processor.clean_data(tb_df): the parameter df is rebound
\* inside the call, the caller's table is never assigned to
ApplyClean ==
    /\ pc = "clean"
    /\ "clean" \notin proc.done
    /\ proc' = [proc EXCEPT !.done = @ \cup {"clean"},
                            !.tb_df_clean = clean_data(proc.tb_df)]
    /\ ProcUnchanged

\* clean_data applied to its own result
ApplyCleanAgain ==
    /\ pc = "clean"
    /\ "clean" \in proc.done
    /\ "again" \notin proc.done
    /\ proc' = [proc EXCEPT !.done = @ \cup {"again"},
                            !.again = clean_data(proc.tb_df_clean)]
    /\ ProcUnchanged

NextClean ==
    \/ ApplyClean
    \/ ApplyCleanAgain

SpecClean ==
    InitClean /\ [][NextClean]_vars

\* C11: cleaning is idempotent: clean_data applied to a cleaned table returns
\* the same rows in the same order
C11_CleanIdempotent ==
    (pc = "clean" /\ "again" \in proc.done) => proc.again = proc.tb_df_clean

\* C11: a table from which cleaning removed a row and kept a row was cleaned twice
C11_Witness ==
    /\ pc = "clean"
    /\ "again" \in proc.done
    /\ proc.tb_df_clean.rows # <<>>
    /\ Len(proc.tb_df_clean.rows) < Len(proc.before.rows)

\* a is b with some positions left out, the others in their order
RECURSIVE IsSubsequence(_, _)
IsSubsequence(a, b) ==
    IF a = <<>> THEN TRUE
    ELSE IF b = <<>> THEN FALSE
    ELSE IF Head(a) = Head(b) THEN IsSubsequence(Tail(a), Tail(b))
    ELSE IsSubsequence(a, Tail(b))

\* C12: the cleaned table is an order-preserving subsequence of the input
\* rows, unchanged, no longer than the input, and the input table is as it was
C12_CleanIsSubsequence ==
    (pc = "clean" /\ "clean" \in proc.done) =>
        /\ IsSubsequence(proc.tb_df_clean.rows, proc.before.rows)
        /\ Len(proc.tb_df_clean.rows) <= Len(proc.before.rows)
        /\ proc.tb_df_clean.columns = proc.before.columns
        /\ proc.tb_df = proc.before

\* C12: a two-row table whose first row was removed and whose second was kept
C12_Witness ==
    /\ pc = "clean"
    /\ "clean" \in proc.done
    /\ Len(proc.before.rows) = 2
    /\ proc.tb_df_clean.rows = <<proc.before.rows[2]>>
    /\ proc.before.rows[1] # proc.before.rows[2]



\* ------------------------------------------------------------------------
\* processor.merge_with_mapping
\* ------------------------------------------------------------------------
\* tb_df['Account'].astype(str).str.strip().str.lower()
AccountKey(account) ==
    lower(strip(Str(account)))

\* tb_df['Account_Key'] = ...: the column is assigned on the table passed in
WithAccountKey(df) ==
    [columns |-> IF "Account_Key" \in Range(df.columns)
                 THEN df.columns
                 ELSE Append(df.columns, "Account_Key"),
     rows    |-> [i \in 1..Len(df.rows) |->
                    [Account_Key |-> AccountKey(df.rows[i].Account)] @@ df.rows[i]]]

Digits ==
    {"0", "1", "2", "3", "4", "5", "6", "7", "8", "9"}

\* re.match(r'^(\d+)', s).group(1), or '' where re.match returns None
RECURSIVE LeadingDigits(_)
LeadingDigits(s) ==
    IF s # <<>> /\ Head(s) \in Digits
    THEN <<Head(s)>> \o LeadingDigits(Tail(s))
    ELSE <<>>

\* the rows a left merge on Account_Key gives for one row of tb_df: one per
\* row of mapping_df with that key, in their order
MergedRowsOf(row, mapping_df) ==
    LET right == SelectSeq(mapping_df.rows,
                           LAMBDA m : m.Account_Key = row.Account_Key)
    IN  IF right = <<>>
        THEN <<[Category |-> NaN, Subcategory |-> NaN] @@ row>>
        ELSE [j \in 1..Len(right) |->
                [Category    |-> right[j].Category,
                 Subcategory |-> right[j].Subcategory] @@ row]

\* tb_df.merge(mapping_df[[...]], on='Account_Key', how='left')
RECURSIVE MergeOnKey(_, _)
MergeOnKey(rows, mapping_df) ==
    IF rows = <<>> THEN <<>>
    ELSE MergedRowsOf(Head(rows), mapping_df) \o MergeOnKey(Tail(rows), mapping_df)

\* the loop over unmatched rows: first mapping row whose key starts with
\* the account number
PrefixFill(row, mapping_df) ==
    IF row.Category # NaN THEN row
    ELSE
      LET account_num == LeadingDigits(Str(row.Account))
      IN  IF account_num = <<>> THEN row
          ELSE
            LET mapping_match ==
                    SelectSeq(mapping_df.rows,
                              LAMBDA m : StartsWith(m.Account_Key, account_num))
            IN  IF mapping_match = <<>> THEN row
                ELSE [row EXCEPT !.Category    = mapping_match[1].Category,
                                 !.Subcategory = mapping_match[1].Subcategory]

\* fillna('Unmapped') on Category, fillna('Unknown') on Subcategory
FillRemaining(row) ==
    [row EXCEPT !.Category    = IF @ = NaN THEN cat_Unmapped ELSE @,
                !.Subcategory = IF @ = NaN THEN sub_Unknown ELSE @]

\* merged.drop('Account_Key', axis=1)
DropAccountKey(row) ==
    [c \in (DOMAIN row) \ {"Account_Key"} |-> row[c]]

\* the table merge_with_mapping returns
merge_with_mapping(tb_df, mapping_df) ==
    LET keyed  == WithAccountKey(tb_df)
        merged == MergeOnKey(keyed.rows, mapping_df)
    IN  [columns |-> SelectSeq(keyed.columns, LAMBDA c : c # "Account_Key")
                       \o <<"Category", "Subcategory">>,
         rows    |-> [i \in 1..Len(merged) |->
                        DropAccountKey(FillRemaining(PrefixFill(merged[i], mapping_df)))]]

\* Sample Account cells of a cleaned trial balance
acct_CASH_padded ==
    <<" ", "1", "0", "0", "0", " ", "C", "A", "S", "H", " ">>

acct_petty ==
    <<"1", "0", "0", "0", " ", "P", "e", "t", "t", "y", " ", "C", "a", "s", "h">>

acct_sundry ==
    <<"S", "u", "n", "d", "r", "y">>

acct_bank ==
    <<"3", "0", "0", "0", " ", "B", "a", "n", "k">>

\* Sample Account_Key cells of a mapping table
key_cash ==
    <<"1", "0", "0", "0", " ", "c", "a", "s", "h">>

key_ap ==
    <<"2", "0", "0", "0", " ", "a", "p">>

key_bank_10000 ==
    <<"1", "0", "0", "0", "0", " ", "b", "a", "n", "k">>

key_reserves ==
    <<"2", "0", "0", "0", "0", " ", "r", "e", "s", "e", "r", "v", "e", "s">>

sub_Reserves ==
    <<"R", "e", "s", "e", "r", "v", "e", "s">>

\* the tables clean_data can return, of at most MaxRows rows
CleanedTables ==
    {[columns |-> TrialBalanceColumns, rows |-> rs] :
        rs \in UNION {[1..n ->
                         {[Account |-> a, Debit |-> Num(50000), Credit |-> Num(0)] :
                             a \in {acct_cash, acct_ap, acct_CASH_padded, acct_petty,
                                    acct_sundry, acct_bank}}] : n \in 1..MaxRows}}

MaxMappingRows ==
    2

\* rows of the table load_category_mapping returns: a blank Category or
\* Subcategory cell of the file is NaN
MappingRows ==
    {[Account_Key |-> key_cash, Category |-> cat_Asset, Subcategory |-> sub_Current],
     [Account_Key |-> key_cash, Category |-> cat_Liability, Subcategory |-> sub_Unknown],
     [Account_Key |-> key_ap, Category |-> cat_Liability, Subcategory |-> NaN],
     [Account_Key |-> key_ap, Category |-> NaN, Subcategory |-> sub_Current],
     [Account_Key |-> key_bank_10000, Category |-> cat_Clearing, Subcategory |-> sub_Current],
     [Account_Key |-> key_reserves, Category |-> cat_Equity, Subcategory |-> sub_Reserves]}

\* the mapping tables of at most MaxMappingRows rows, the empty one of
\* main's else branch included
MappingTables ==
    {[columns |-> <<"Account_Key", "Category", "Subcategory">>, rows |-> rs] :
        rs \in UNION {[1..n -> MappingRows] : n \in 0..MaxMappingRows}}

InitMapping ==
    /\ pc = "merge"
    /\ tb_merged = None_df
    /\ classification_result = None
    /\ classification_df = None_df
    /\ excel_output = None_df
    /\ reconciliation_result = None
    /\ error = "none"
    /\ session_state = InitialSessionState
    /\ session_files = [id \in SessionIds |-> NoFile]
    /\ pre_state = InitialSessionState
    /\ run = 0
    /\ infer = NoInfer
    /\ \E t \in CleanedTables, m \in MappingTables :
          proc = [done |-> {}, before |-> t, tb_df_clean |-> t,
                  mapping_before |-> m, mapping_df |-> m]

\* tb_merged = processor.merge_with_mapping(tb_df_clean, mapping_df)
ApplyMerge ==
    /\ pc = "merge"
    /\ "merge" \notin proc.done
    /\ proc' = [proc EXCEPT !.done = @ \cup {"merge"},
                            !.tb_df_clean = WithAccountKey(proc.tb_df_clean)]
    /\ tb_merged' = merge_with_mapping(proc.tb_df_clean, proc.mapping_df)
    /\ UNCHANGED <<pc, classification_result, classification_df, excel_output,
                   reconciliation_result, error, session_state, session_files,
                   pre_state, run, infer>>

NextMapping ==
    ApplyMerge

SpecMapping ==
    InitMapping /\ [][NextMapping]_vars

\* the mapping entries whose key is the row's normalized account
ExactOf(r) ==
    {m \in Range(proc.mapping_before.rows) : m.Account_Key = lower(strip(r.Account))}

\* a mapping entry's key starts with the digits the account starts with
HasNumericPrefixMatch(r) ==
    /\ LeadingDigits(r.Account) # <<>>
    /\ \E m \in Range(proc.mapping_before.rows) :
          StartsWith(m.Account_Key, LeadingDigits(r.Account))

\* the row has the values of mapping entry m, a blank cell of the entry
\* read as Unmapped / Unknown
HasValuesOf(r, m) ==
    /\ r.Category = (IF m.Category = NaN THEN cat_Unmapped ELSE m.Category)
    /\ r.Subcategory = (IF m.Subcategory = NaN THEN sub_Unknown ELSE m.Subcategory)

\* C13: every row of the merged table has Category and Subcategory
\* populated; a row whose normalized account equals the key of a mapping
\* entry has the values of such an entry; a row with neither an exact nor
\* a numeric-prefix match is Unmapped / Unknown
C13_CategoryAlwaysPopulated ==
    (pc = "merge" /\ "merge" \in proc.done) =>
        \A i \in 1..Len(tb_merged.rows) :
            LET r == tb_merged.rows[i]
            IN  /\ r.Category # NaN
                /\ r.Subcategory # NaN
                /\ ExactOf(r) # {} => \E m \in ExactOf(r) : HasValuesOf(r, m)
                /\ (ExactOf(r) = {} /\ ~HasNumericPrefixMatch(r))
                   => (r.Category = cat_Unmapped /\ r.Subcategory = sub_Unknown)

\* C14: after merge_with_mapping the ledger table and the mapping table
\* passed in have the columns and rows they had before the call
C14_MergeNoSideEffects ==
    (pc = "merge" /\ "merge" \in proc.done) =>
        /\ proc.tb_df_clean = proc.before
        /\ proc.mapping_df = proc.mapping_before



\* ------------------------------------------------------------------------
\* outputs.parse_claude_table_response alone, over response texts
\* ------------------------------------------------------------------------
\* pd.DataFrame(rows, columns=headers) raises ValueError when a row has not
\* as many cells as there are headers
DataFrameRaises(df) ==
    \E i \in 1..Len(df.rows) : Len(df.rows[i]) # Len(df.columns)

\* More header segments a response table can carry
hdr_Amount ==
    <<"A", "m", "o", "u", "n", "t">>

hdr_Category ==
    <<" ", "C", "a", "t", "e", "g", "o", "r", "y">>

hdr_SubDashCategory ==
    <<"S", "u", "b", "-", "C", "a", "t", "e", "g", "o", "r", "y", " ">>

hdr_SubSpaceCategory ==
    <<"S", "u", "b", " ", "C", "a", "t", "e", "g", "o", "r", "y">>

hdr_Subcategory ==
    <<"S", "U", "B", "C", "A", "T", "E", "G", "O", "R", "Y">>

hdr_Comments ==
    <<"C", "o", "m", "m", "e", "n", "t", "s">>

hdr_AccountStatus ==
    <<"A", "c", "c", "o", "u", "n", "t", " ", "S", "t", "a", "t", "u", "s">>

hdr_Balance ==
    <<"B", "a", "l", "a", "n", "c", "e">>

hdr_Notes ==
    <<" ", "N", "o", "t", "e", "s", " ">>

hdr_Type ==
    <<"T", "y", "p", "e">>

HeaderSegments ==
    {hdr_Account, hdr_Status, hdr_STATUS, hdr_BalanceType, hdr_Commentary,
     hdr_Amount, hdr_Category, hdr_SubDashCategory, hdr_SubSpaceCategory,
     hdr_Subcategory, hdr_Comments, hdr_AccountStatus, hdr_Balance, hdr_Notes,
     hdr_Type}

MaxHeaderCells ==
    3

\* the texts of SpecAssemble, the two-line responses with a header line of
\* 2..MaxHeaderCells cells and one data line, and responses whose data row
\* is shorter than the header
ParserTexts ==
    Texts
    \cup {<<h, <<cell_cash, cell_PASS, cell_Debit>> >> :
             h \in UNION {[1..n -> HeaderSegments] : n \in 2..MaxHeaderCells}}
    \cup { << <<hdr_Account, hdr_STATUS, hdr_BalanceType>>, <<cell_ap, cell_PASS>> >>,
           << <<hdr_Account, hdr_Status>>, <<cell_ap, cell_PASS>> >>,
           << <<hdr_Account, hdr_Status>>, <<cell_ap>> >> }

InitParse ==
    /\ pc = "parse"
    /\ tb_merged = None_df
    /\ classification_result \in ParserTexts
    /\ classification_df = None_df
    /\ excel_output = None_df
    /\ reconciliation_result = None
    /\ error = "none"
    /\ session_state = InitialSessionState
    /\ session_files = [id \in SessionIds |-> NoFile]
    /\ pre_state = InitialSessionState
    /\ run = 0
    /\ infer = NoInfer
    /\ proc = NoProc

\* classification_df = outputs.parse_claude_table_response(classification_result)
ApplyParse ==
    /\ pc = "parse"
    /\ LET df == parse_claude_table_response(classification_result)
       IN  IF DataFrameRaises(df)
           THEN classification_df' = None_df /\ error' = "exception"
           ELSE classification_df' = df /\ error' = "none"
    /\ pc' = "parsed"
    /\ UNCHANGED <<tb_merged, classification_result, excel_output,
                   reconciliation_result, session_state, session_files, pre_state,
                   run, infer, proc>>

NextParse ==
    ApplyParse

SpecParse ==
    InitParse /\ [][NextParse]_vars

\* the line holds a pipe and one of the four keywords, in any case
IsHeaderLine(line) ==
    /\ Len(line) >= 2
    /\ \E i \in 1..Len(line) :
          \E kw \in {kw_account, kw_balance, kw_status, kw_commentary} :
              In(kw, lower(line[i]))

\* the line holds a pipe and something else than dashes, colons and blanks
IsTableLine(line) ==
    /\ Len(line) >= 2
    /\ \E i \in 1..Len(line) : \E j \in 1..Len(line[i]) :
          line[i][j] \notin {" ", "\t", "-", ":"}

\* the text has a header line and no table line after the first of them
HeaderWithoutRows(text) ==
    \E h \in 1..Len(text) :
        /\ IsHeaderLine(text[h])
        /\ \A g \in 1..(h - 1) : ~IsHeaderLine(text[g])
        /\ \A j \in (h + 1)..Len(text) : ~IsTableLine(text[j])

\* C15: the parser raises for no text, and returns the empty table when no
\* line has a pipe and a keyword, and when the header is followed by no data row
C15_ParserNeverRaises ==
    (pc = "parsed") =>
        /\ error = "none"
        /\ (\A i \in 1..Len(classification_result) :
               ~IsHeaderLine(classification_result[i]))
           => classification_df = EmptyDF
        /\ HeaderWithoutRows(classification_result) => classification_df = EmptyDF

\* C15: a text whose header line is followed by a separator line only was
\* parsed to the empty table
C15_Witness ==
    /\ pc = "parsed"
    /\ Len(classification_result) = 2
    /\ IsHeaderLine(classification_result[1])
    /\ Len(classification_result[2]) >= 2
    /\ ~IsTableLine(classification_result[2])
    /\ classification_df = EmptyDF

\* C15: a data row shorter than the header was parsed, padded, to a table
C15_WitnessShortRow ==
    /\ pc = "parsed"
    /\ Len(classification_result) = 2
    /\ Len(classification_result[2]) < Len(classification_result[1])
    /\ classification_df # EmptyDF
    /\ error = "none"

\* the renaming rules in their order: the header holds every word of `all`,
\* one word of `any` unless `any` is empty, and no word of `none`
RenameRules ==
    <<[all |-> {kw_account}, any |-> {}, none |-> {}, to |-> col_Account],
      [all |-> {kw_balance, kw_type}, any |-> {}, none |-> {}, to |-> col_Balance_Type],
      [all |-> {kw_amount}, any |-> {}, none |-> {}, to |-> col_Amount],
      [all |-> {kw_category}, any |-> {}, none |-> {kw_sub}, to |-> col_Category],
      [all |-> {}, any |-> {kw_subcategory, kw_sub_category_dash, kw_sub_category_space},
       none |-> {}, to |-> col_Subcategory],
      [all |-> {kw_comment}, any |-> {}, none |-> {}, to |-> col_Commentary],
      [all |-> {kw_status}, any |-> {}, none |-> {}, to |-> col_Status]>>

RuleApplies(rule, h) ==
    /\ \A w \in rule.all : In(w, h)
    /\ rule.any = {} \/ \E w \in rule.any : In(w, h)
    /\ \A w \in rule.none : ~In(w, h)

\* the canonical name of the first rule that applies, the header itself if none does
RECURSIVE Renamed(_, _)
Renamed(header, k) ==
    IF k > Len(RenameRules) THEN header
    ELSE IF RuleApplies(RenameRules[k], lower(header)) THEN RenameRules[k].to
    ELSE Renamed(header, k + 1)

\* the non-empty trimmed cells of the first header line of the text
HeaderCells(text) ==
    LET h == CHOOSE i \in 1..Len(text) :
                 IsHeaderLine(text[i]) /\ \A g \in 1..(i - 1) : ~IsHeaderLine(text[g])
    IN  SelectSeq([i \in 1..Len(text[h]) |-> strip(text[h][i])], LAMBDA c : c # <<>>)

\* C16: the columns of a parsed table are the headers renamed by the first
\* applicable rule, other headers unchanged; 'Account | Status' with one data
\* line parses to one row with columns Account and Status
C16_HeadersRenamed ==
    (pc = "parsed" /\ error = "none") =>
        /\ classification_df # EmptyDF =>
              LET headers == HeaderCells(classification_result)
              IN  classification_df.columns =
                      [i \in 1..Len(headers) |-> Renamed(headers[i], 1)]
        /\ classification_result = << <<hdr_Account, hdr_Status>>, <<cell_ap, cell_PASS>> >>
              => classification_df = [columns |-> <<col_Account, col_Status>>,
                                      rows    |-> << <<acct_ap, PASS>> >>]

\* C16: a header with 'Account Status', 'Sub-Category' and an unknown name
\* was parsed, and the two-line response of the example was parsed
C16_Witness ==
    /\ pc = "parsed"
    /\ classification_df # EmptyDF
    /\ classification_result[1] = <<hdr_AccountStatus, hdr_SubDashCategory, hdr_Notes>>
    /\ classification_df.columns = <<col_Account, col_Subcategory, <<"N", "o", "t", "e", "s">> >>

\* C16: the two-line response of the example was parsed to its one row
C16_WitnessExample ==
    /\ pc = "parsed"
    /\ classification_result = << <<hdr_Account, hdr_Status>>, <<cell_ap, cell_PASS>> >>
    /\ Len(classification_df.rows) = 1



\* ------------------------------------------------------------------------
\* processor.parse_trial_balance and processor.parse_gl_dump
\* ------------------------------------------------------------------------
\* A file is the sequence of its lines, a line the sequence of its cells
\* (the text between two commas), a cell a sequence of characters.

\* Words the loaders and float() look for
kw_debit ==
    <<"d", "e", "b", "i", "t">>

kw_credit ==
    <<"c", "r", "e", "d", "i", "t">>

kw_date ==
    <<"d", "a", "t", "e">>

kw_description ==
    <<"d", "e", "s", "c", "r", "i", "p", "t", "i", "o", "n">>

kw_memo ==
    <<"m", "e", "m", "o">>

kw_narration ==
    <<"n", "a", "r", "r", "a", "t", "i", "o", "n">>

word_inf ==
    <<"i", "n", "f">>

word_infinity ==
    <<"i", "n", "f", "i", "n", "i", "t", "y">>

\* the cell texts read_csv and read_excel turn into NaN by default
NAValues ==
    {<<>>,
     <<"#", "N", "/", "A">>,
     <<"#", "N", "/", "A", " ", "N", "/", "A">>,
     <<"#", "N", "A">>,
     <<"-", "1", ".", "#", "I", "N", "D">>,
     <<"-", "1", ".", "#", "Q", "N", "A", "N">>,
     <<"-", "N", "a", "N">>,
     <<"-", "n", "a", "n">>,
     <<"1", ".", "#", "I", "N", "D">>,
     <<"1", ".", "#", "Q", "N", "A", "N">>,
     <<"<", "N", "A", ">">>,
     <<"N", "/", "A">>,
     <<"N", "A">>,
     <<"N", "U", "L", "L">>,
     <<"N", "a", "N">>,
     <<"N", "o", "n", "e">>,
     <<"n", "/", "a">>,
     <<"n", "a", "n">>,
     <<"n", "u", "l", "l">>}

\* a cell as pandas hands it to the loader
ReadCell(cell) ==
    IF cell \in NAValues THEN NaN ELSE cell

\* int() of one digit
DigitValue ==
    LET chars == <<"0", "1", "2", "3", "4", "5", "6", "7", "8", "9">>
    IN  [c \in Digits |-> (CHOOSE i \in 1..Len(chars) : chars[i] = c) - 1]

RECURSIVE DecimalValue(_)
DecimalValue(ds) ==
    IF ds = <<>> THEN 0
    ELSE DecimalValue(SubSeq(ds, 1, Len(ds) - 1)) * 10 + DigitValue[ds[Len(ds)]]

AllDigits(s) ==
    \A i \in 1..Len(s) : s[i] \in Digits

\* position of the first c in s, 0 if there is none
RECURSIVE IndexFrom(_, _, _)
IndexFrom(s, c, i) ==
    IF i > Len(s) THEN 0
    ELSE IF s[i] = c THEN i
    ELSE IndexFrom(s, c, i + 1)

\* float(s) on text without exponent and underscore, of at most two digits
\* after the point: ok is FALSE where float raises ValueError
float(value_str) ==
    LET s      == strip(value_str)
        signed == s # <<>> /\ Head(s) \in {"+", "-"}
        sign   == IF signed /\ Head(s) = "-" THEN -1 ELSE 1
        body   == IF signed THEN Tail(s) ELSE s
        word   == lower(body)
        dot    == IndexFrom(body, ".", 1)
        int    == IF dot = 0 THEN body ELSE SubSeq(body, 1, dot - 1)
        frac   == IF dot = 0 THEN <<>> ELSE SubSeq(body, dot + 1, Len(body))
    IN  IF word = txt_nan THEN [ok |-> TRUE, val |-> float_nan]
        ELSE IF word \in {word_inf, word_infinity}
        THEN [ok |-> TRUE, val |-> [k |-> "inf", v |-> sign]]
        ELSE IF AllDigits(int) /\ AllDigits(frac) /\ Len(int) + Len(frac) >= 1
        THEN [ok |-> TRUE,
              val |-> Num(sign * (DecimalValue(int) * 100
                                    + DecimalValue(SubSeq(frac \o <<"0", "0">>, 1, 2))))]
        ELSE [ok |-> FALSE, val |-> Num(0)]

\* mutant of clean_currency: the commas are left in the text
clean_currency_keeps_commas(value) ==
    IF value = NaN \/ value = <<>> THEN Num(0)
    ELSE
      LET value_str == strip(SelectSeq(Str(value), LAMBDA c : c \notin {"€", "$", "£"}))
      IN  IF value_str = <<>> THEN Num(0)
          ELSE IF float(value_str).ok THEN float(value_str).val
          ELSE Num(0)

\* parse_trial_balance.clean_currency
clean_currency(value) ==
    IF value = NaN \/ value = <<>> THEN Num(0)
    ELSE
      LET value_str == strip(SelectSeq(Str(value),
                                       LAMBDA c : c \notin {"€", "$", "£", ","}))
      IN  IF value_str = <<>> THEN Num(0)
          ELSE IF float(value_str).ok THEN float(value_str).val
          ELSE Num(0)

\* pd.to_numeric(..., errors='coerce').fillna(0) on one cell
to_numeric_fillna(value) ==
    IF value = NaN THEN Num(0)
    ELSE IF float(value).ok /\ float(value).val # float_nan THEN float(value).val
    ELSE Num(0)

NaT ==
    [year |-> 0, month |-> 0, day |-> 0]

\* pd.to_datetime(..., errors='coerce') on one cell written YYYY-MM-DD
to_datetime(value) ==
    IF /\ value # NaN
       /\ Len(value) = 10
       /\ value[5] = "-" /\ value[8] = "-"
       /\ AllDigits(SubSeq(value, 1, 4) \o SubSeq(value, 6, 7) \o SubSeq(value, 9, 10))
    THEN [year  |-> DecimalValue(SubSeq(value, 1, 4)),
          month |-> DecimalValue(SubSeq(value, 6, 7)),
          day   |-> DecimalValue(SubSeq(value, 9, 10))]
    ELSE NaT

\* rows of the file scanned for the header: nrows=20, lines[:20]
ScanLimit ==
    20

\* 'account' in line_lower and 'debit' in line_lower and 'credit' in line_lower
IsLedgerHeader(line) ==
    LET line_lower == [i \in 1..Len(line) |-> lower(line[i])]
    IN  \A kw \in {kw_account, kw_debit, kw_credit} :
            \E i \in 1..Len(line_lower) : In(kw, line_lower[i])

\* mutant of FindHeaderRow: the whole file is scanned
RECURSIVE FindHeaderRow_WholeFile(_, _)
FindHeaderRow_WholeFile(lines, i) ==
    IF i > Len(lines) THEN 0
    ELSE IF IsLedgerHeader(lines[i]) THEN i
    ELSE FindHeaderRow_WholeFile(lines, i + 1)

\* the loop over the first lines: position of the header row (from 1), 0 for None
RECURSIVE FindHeaderRow(_, _)
FindHeaderRow(lines, i) ==
    IF i > Len(lines) \/ i > ScanLimit THEN 0
    ELSE IF IsLedgerHeader(lines[i]) THEN i
    ELSE FindHeaderRow(lines, i + 1)

\* mutant of FindLedgerColumns: three ifs in place of the if / elif chain
RECURSIVE FindLedgerColumns_Independent(_, _, _)
FindLedgerColumns_Independent(columns, i, found) ==
    IF i > Len(columns) THEN found
    ELSE
      LET col_lower == lower(columns[i])
          hit(w, at) == In(w, col_lower) /\ at = 0
      IN  FindLedgerColumns_Independent(columns, i + 1,
            [account |-> IF hit(kw_account, found.account) THEN i ELSE found.account,
             debit   |-> IF hit(kw_debit, found.debit) THEN i ELSE found.debit,
             credit  |-> IF hit(kw_credit, found.credit) THEN i ELSE found.credit])

\* the loop over df.columns of parse_trial_balance: positions of the
\* account, debit and credit columns, 0 for None
RECURSIVE FindLedgerColumns(_, _, _)
FindLedgerColumns(columns, i, found) ==
    IF i > Len(columns) THEN found
    ELSE
      LET col_lower == lower(columns[i])
      IN  FindLedgerColumns(columns, i + 1,
            IF In(kw_account, col_lower) /\ found.account = 0
            THEN [found EXCEPT !.account = i]
            ELSE IF In(kw_debit, col_lower) /\ found.debit = 0
            THEN [found EXCEPT !.debit = i]
            ELSE IF In(kw_credit, col_lower) /\ found.credit = 0
            THEN [found EXCEPT !.credit = i]
            ELSE found)

\* what a call returns: the table, or raised with no table
Raised ==
    [raised |-> TRUE, df |-> None_df]

\* parse_trial_balance on a CSV file (the Excel branch scans the same way)
parse_trial_balance(file) ==
    LET header_row == FindHeaderRow(file, 1)
    IN  IF header_row = 0 THEN Raised
        ELSE
          LET columns == MapStrip(file[header_row])
              data    == SubSeq(file, header_row + 1, Len(file))
              found   == FindLedgerColumns(columns, 1,
                            [account |-> 0, debit |-> 0, credit |-> 0])
          IN  IF found.account = 0 \/ found.debit = 0 \/ found.credit = 0
              THEN Raised
              ELSE [raised |-> FALSE,
                    df |-> [columns |-> TrialBalanceColumns,
                            rows |-> [i \in 1..Len(data) |->
                               [Account |-> ReadCell(data[i][found.account]),
                                Debit   |-> clean_currency(ReadCell(data[i][found.debit])),
                                Credit  |-> clean_currency(ReadCell(data[i][found.credit]))]]]]

\* the loop over df.columns of parse_gl_dump
RECURSIVE FindGLColumns(_, _, _)
FindGLColumns(columns, i, found) ==
    IF i > Len(columns) THEN found
    ELSE
      LET col_lower == lower(columns[i])
      IN  FindGLColumns(columns, i + 1,
            IF In(kw_account, col_lower) /\ found.account = 0
            THEN [found EXCEPT !.account = i]
            ELSE IF In(kw_date, col_lower) /\ found.date = 0
            THEN [found EXCEPT !.date = i]
            ELSE IF /\ \E x \in {kw_description, kw_memo, kw_narration} : In(x, col_lower)
                    /\ found.desc = 0
            THEN [found EXCEPT !.desc = i]
            ELSE IF In(kw_debit, col_lower) /\ found.debit = 0
            THEN [found EXCEPT !.debit = i]
            ELSE IF In(kw_credit, col_lower) /\ found.credit = 0
            THEN [found EXCEPT !.credit = i]
            ELSE found)

\* parse_gl_dump on a CSV file: the first line is the header
parse_gl_dump(file) ==
    IF file = <<>> THEN Raised
    ELSE
      LET columns == MapStrip(file[1])
          data    == Tail(file)
          found   == FindGLColumns(columns, 1,
                        [account |-> 0, date |-> 0, desc |-> 0, debit |-> 0, credit |-> 0])
      IN  IF found.account = 0 \/ found.date = 0 \/ found.debit = 0 \/ found.credit = 0
          THEN Raised
          ELSE [raised |-> FALSE,
                df |-> [columns |-> <<"Account", "Date", "Description", "Debit", "Credit">>,
                        rows |-> [i \in 1..Len(data) |->
                           [Account     |-> ReadCell(data[i][found.account]),
                            Date        |-> to_datetime(ReadCell(data[i][found.date])),
                            Description |-> IF found.desc = 0 THEN <<>>
                                            ELSE ReadCell(data[i][found.desc]),
                            Debit       |-> to_numeric_fillna(ReadCell(data[i][found.debit])),
                            Credit      |-> to_numeric_fillna(ReadCell(data[i][found.credit]))]]]]

\* Sample cells and lines of an uploaded file
cell_1200_50 ==
    <<"$", "1", ",", "2", "0", "0", ".", "5", "0">>

cell_na ==
    <<"n", "/", "a">>

cell_minus5 ==
    <<"-", "5">>

cell_dollar_nan ==
    <<"$", "n", "a", "n">>

cell_inf ==
    <<"i", "n", "f">>

cell_300_padded ==
    <<" ", "3", "0", "0", " ">>

cell_euro ==
    <<"€", "5", "0", "0">>

cell_pound ==
    <<" ", "£", "1", ",", "0", "0", "0", " ">>

cell_parens ==
    <<"(", "5", "0", "0", ")">>

cell_dollar ==
    <<"$">>

cell_two_points ==
    <<"1", ".", "2", ".", "3">>

cell_500_0 ==
    <<"5", "0", "0", ".", "0">>

cell_plus7 ==
    <<"+", "7">>

cell_half ==
    <<".", "5">>

cell_minus ==
    <<"-">>

cell_0 ==
    <<"0">>

cell_300 ==
    <<"3", "0", "0">>

cell_abc ==
    <<"a", "b", "c">>

cell_date ==
    <<"2", "0", "2", "4", "-", "0", "1", "-", "3", "1">>

line_title ==
    <<"T", "r", "i", "a", "l", " ", "B", "a", "l", "a", "n", "c", "e", " ", "2", "0", "2", "4">>

line_decoy ==
    <<"A", "c", "c", "o", "u", "n", "t", " ", "d", "e", "b", "i", "t", " ", "c", "r", "e", "d", "i", "t", " ", "l", "i", "s", "t", "i", "n", "g">>

hdr_Debit ==
    <<"D", "e", "b", "i", "t">>

hdr_Credit ==
    <<" ", "C", "r", "e", "d", "i", "t", " ">>

hdr_ACCOUNT_NAME ==
    <<"A", "C", "C", "O", "U", "N", "T", " ", "N", "A", "M", "E">>

hdr_Date ==
    <<"D", "a", "t", "e">>

hdr_DEBIT_EUR ==
    <<"D", "E", "B", "I", "T", " ", "(", "E", "U", "R", ")">>

hdr_DebitAccount ==
    <<"D", "e", "b", "i", "t", " ", "A", "c", "c", "o", "u", "n", "t">>

\* contents of a Debit cell of the file
AmountCells ==
    {cell_1200_50, <<>>, cell_na, txt_nan, cell_minus5, cell_dollar_nan, cell_inf,
     cell_300_padded, cell_euro, cell_pound, cell_parens, cell_dollar,
     cell_two_points, cell_500_0, cell_plus7, cell_half, cell_minus, cell_0, cell_abc}

\* title rows above the header, at most
MaxTitleRows ==
    21

\* the header lines of a file of the given kind
HeaderLines(kind) ==
    CASE kind = "none"    -> <<>>
      [] kind = "plain"   -> << <<hdr_Account, hdr_Debit, hdr_Credit>> >>
      [] kind = "dated"   -> << <<hdr_ACCOUNT_NAME, hdr_Date, hdr_DEBIT_EUR, hdr_Credit>> >>
      [] kind = "partial" -> << <<hdr_Account, hdr_Debit>> >>
      [] kind = "journal" -> << <<hdr_DebitAccount, hdr_Date, hdr_Debit, hdr_Credit>> >>
      [] kind = "decoy"   -> << <<line_decoy>>, <<hdr_Account, hdr_Debit, hdr_Credit>> >>

\* one data line with the given account, debit and credit cells
DataLine(kind, account, debit, credit) ==
    IF kind \in {"dated", "journal"} THEN <<account, cell_date, debit, credit>>
    ELSE <<account, debit, credit>>

\* the uploaded files: title rows, header lines, one or two data lines;
\* cell is the Debit cell of the first data line
Files ==
    {[lines |-> [i \in 1..k |-> <<line_title>>] \o HeaderLines(kind)
                  \o <<DataLine(kind, acct_cash, debit, credit)>>
                  \o (IF two THEN <<DataLine(kind, acct_ap, cell_0, cell_300)>> ELSE <<>>),
      cell  |-> debit] :
        k \in 0..MaxTitleRows,
        kind \in {"none", "plain", "dated", "partial", "journal", "decoy"}, debit \in AmountCells,
        credit \in {cell_0, cell_minus5}, two \in BOOLEAN}

InitLoad ==
    /\ pc = "load"
    /\ tb_merged = None_df
    /\ classification_result = None
    /\ classification_df = None_df
    /\ excel_output = None_df
    /\ reconciliation_result = None
    /\ error = "none"
    /\ session_state = InitialSessionState
    /\ session_files = [id \in SessionIds |-> NoFile]
    /\ pre_state = InitialSessionState
    /\ run = 0
    /\ infer = NoInfer
    /\ \E f \in Files :
          proc = [done |-> {}, file |-> f.lines, cell |-> f.cell]

\* tb_df = processor.parse_trial_balance(tb_file)
LoadTrialBalance ==
    /\ pc = "load"
    /\ "tb" \notin proc.done
    /\ proc' = [done |-> proc.done \cup {"tb"},
                tb   |-> parse_trial_balance(proc.file)] @@ proc
    /\ ProcUnchanged

\* gl_df = processor.parse_gl_dump(gl_file), on the same file
LoadGL ==
    /\ pc = "load"
    /\ "gl" \notin proc.done
    /\ proc' = [done |-> proc.done \cup {"gl"},
                gl   |-> parse_gl_dump(proc.file)] @@ proc
    /\ ProcUnchanged

\* clean_currency on the text of the first Debit cell itself
ApplyCleanCurrency ==
    /\ pc = "load"
    /\ "amount" \notin proc.done
    /\ proc' = [done   |-> proc.done \cup {"amount"},
                amount |-> clean_currency(proc.cell)] @@ proc
    /\ ProcUnchanged

NextLoad ==
    \/ LoadTrialBalance
    \/ LoadGL
    \/ ApplyCleanCurrency

SpecLoad ==
    InitLoad /\ [][NextLoad]_vars



\* the cells float() cannot read once the currency characters are removed
UnparseableCells ==
    {cell_na, cell_parens, cell_dollar, cell_two_points, cell_minus, cell_abc}

\* C17: the currency normalizer returns a float for every cell: "$1,200.50"
\* gives 1200.50, the currency characters and surrounding blanks are
\* stripped, and empty, null and unparseable cells give 0
C17_CleanCurrencyTotal ==
    /\ (pc = "load" /\ "amount" \in proc.done) =>
          /\ proc.amount.k \in {"num", "nan", "inf"}
          /\ proc.cell = cell_1200_50 => proc.amount = Num(120050)
          /\ proc.cell = cell_euro => proc.amount = Num(50000)
          /\ proc.cell = cell_pound => proc.amount = Num(100000)
          /\ proc.cell = cell_300_padded => proc.amount = Num(30000)
          /\ proc.cell \in UnparseableCells \cup {<<>>} => proc.amount = Num(0)
    /\ (pc = "load" /\ "tb" \in proc.done /\ ~proc.tb.raised) =>
          /\ ReadCell(proc.cell) = NaN => proc.tb.df.rows[1].Debit = Num(0)
          /\ proc.cell \in UnparseableCells => proc.tb.df.rows[1].Debit = Num(0)
          /\ proc.cell = cell_1200_50 => proc.tb.df.rows[1].Debit = Num(120050)

\* C17: the cell "$1,200.50" was normalized on its own and within a loaded file
C17_Witness ==
    /\ pc = "load"
    /\ {"amount", "tb"} \subseteq proc.done
    /\ ~proc.tb.raised
    /\ proc.cell = cell_1200_50
    /\ proc.amount = Num(120050)

\* C17: an unparseable cell of a loaded file gave 0
C17_WitnessUnparseable ==
    /\ pc = "load"
    /\ "tb" \in proc.done
    /\ ~proc.tb.raised
    /\ proc.cell = cell_parens
    /\ proc.tb.df.rows[1].Debit = Num(0)

NonNegativeAmount(x) ==
    x.k = "num" /\ x.v >= 0

\* C18: every row the trial-balance loader returns has a non-negative
\* amount as Debit and as Credit
C18_LoadedAmountsNonNegative ==
    (pc = "load" /\ "tb" \in proc.done /\ ~proc.tb.raised) =>
        \A i \in 1..Len(proc.tb.df.rows) :
            /\ NonNegativeAmount(proc.tb.df.rows[i].Debit)
            /\ NonNegativeAmount(proc.tb.df.rows[i].Credit)

\* C19: a file both loaders accept gives the same Debit and Credit values
\* as a general ledger and as a trial balance, and its GL cell "$1,200.50"
\* is 1200.50
C19_GLUsesSameNormalizer ==
    (/\ pc = "load"
     /\ {"tb", "gl"} \subseteq proc.done
     /\ ~proc.tb.raised
     /\ ~proc.gl.raised) =>
        /\ \A i \in 1..Len(proc.gl.df.rows) :
              /\ proc.gl.df.rows[i].Debit = proc.tb.df.rows[i].Debit
              /\ proc.gl.df.rows[i].Credit = proc.tb.df.rows[i].Credit
        /\ proc.cell = cell_1200_50 => proc.gl.df.rows[1].Debit = Num(120050)

\* the line holds account, debit and credit, in any case
HasThreeTokens(line) ==
    \A w \in {kw_account, kw_debit, kw_credit} :
        \E i \in 1..Len(line) : In(w, lower(line[i]))

\* h is the first of the first 20 lines that holds the three tokens
FirstHeaderAt(file, h) ==
    /\ h \in 1..20
    /\ h <= Len(file)
    /\ HasThreeTokens(file[h])
    /\ \A g \in 1..(h - 1) : ~HasThreeTokens(file[g])

\* C20: the header is the first of the first 20 lines holding account, debit
\* and credit, the rows are the lines after it; with no such line among the
\* first 20 the load raises; a load that raises returns no table
C20_HeaderWithinFirst20 ==
    (pc = "load" /\ "tb" \in proc.done) =>
        /\ (~\E h \in 1..20 : FirstHeaderAt(proc.file, h)) => proc.tb.raised
        /\ proc.tb.raised => proc.tb.df = None_df
        /\ ~proc.tb.raised =>
              \E h \in 1..20 :
                  /\ FirstHeaderAt(proc.file, h)
                  /\ Len(proc.tb.df.rows) = Len(proc.file) - h
                  /\ \A i \in 1..Len(proc.tb.df.rows) :
                        proc.tb.df.rows[i].Account = proc.file[h + i][1]

\* C20: a file whose header is its 20th line was loaded
C20_Witness ==
    /\ pc = "load"
    /\ "tb" \in proc.done
    /\ ~proc.tb.raised
    /\ FirstHeaderAt(proc.file, 20)
    /\ Len(proc.tb.df.rows) = 2

\* C20: a file whose header is its 21st line was refused
C20_WitnessBeyond ==
    /\ pc = "load"
    /\ "tb" \in proc.done
    /\ proc.tb.raised
    /\ Len(proc.file) >= 21
    /\ HasThreeTokens(proc.file[21])


\* ------------------------------------------------------------------------
\* Properties of clean_data, row by row
\* ------------------------------------------------------------------------
Blanks ==
    {" ", "\t"}

\* the account is null or holds blanks only
NullOrBlank(a) ==
    a = NaN \/ \A i \in 1..Len(a) : a[i] \in Blanks

\* the word w, in any case, stands at position i of a after blanks only
WordAfterBlanks(a, w, i) ==
    /\ \A j \in 1..(i - 1) : a[j] \in Blanks
    /\ i + Len(w) - 1 <= Len(a)
    /\ lower(SubSeq(a, i, i + Len(w) - 1)) = w

\* ^\s*total[\s-], case-insensitively
LikeTotalStart(a) ==
    /\ a # NaN
    /\ \E i \in 1..Len(a) :
          /\ WordAfterBlanks(a, kw_total, i)
          /\ i + Len(kw_total) <= Len(a)
          /\ a[i + Len(kw_total)] \in Blanks \cup {"-"}

\* ^\s*opening\s+balance, case-insensitively
LikeOpeningBalance(a) ==
    /\ a # NaN
    /\ \E i \in 1..Len(a) :
          /\ WordAfterBlanks(a, kw_opening, i)
          /\ \E j \in (i + Len(kw_opening) + 1)..Len(a) :
                /\ \A g \in (i + Len(kw_opening))..(j - 1) : a[g] \in Blanks
                /\ j + Len(kw_balance) - 1 <= Len(a)
                /\ lower(SubSeq(a, j, j + Len(kw_balance) - 1)) = kw_balance

TotalWords ==
    {kw_total, kw_subtotal, kw_sub_total, kw_grand_total, kw_sum}

\* one of the removal conditions holds; the trimmed account is compared with
\* the total words as written or in any case
RemovalCondition(row, anyCase) ==
    \/ NullOrBlank(row.Account)
    \/ LikeTotalStart(row.Account)
    \/ /\ row.Account # NaN
       /\ (IF anyCase THEN lower(strip(row.Account)) ELSE strip(row.Account))
             \in TotalWords
    \/ row.Debit = Num(0) /\ row.Credit = Num(0)
    \/ LikeOpeningBalance(row.Account)

\* the five filters of clean_data, one at a time
FilterKeeps(k, row) ==
    CASE k = 1 -> row.Account # NaN /\ strip(Str(row.Account)) # <<>>
      [] k = 2 -> ~MatchesTotalStart(row.Account)
      [] k = 3 -> ~MatchesTotalExact(row.Account)
      [] k = 4 -> ~(IsZero(row.Debit) /\ IsZero(row.Credit))
      [] k = 5 -> ~MatchesOpeningBalance(row.Account)

\* the filters applied in the order order[1], order[2], ...
RECURSIVE FilteredInOrder(_, _, _)
FilteredInOrder(rows, order, k) ==
    IF k > 5 THEN rows
    ELSE FilteredInOrder(SelectSeq(rows, LAMBDA r : FilterKeeps(order[k], r)),
                         order, k + 1)

C22_PrefixFallbackOnlyForUnmatched ==
    (pc = "merge" /\ "merge" \in proc.done) =>
        \A i \in 1..Len(tb_merged.rows) :
            LET r == tb_merged.rows[i]
                starting == SelectSeq(proc.mapping_before.rows,
                               LAMBDA m : StartsWith(m.Account_Key,
                                                     LeadingDigits(r.Account)))
            IN  /\ (ExactOf(r) = {} /\ HasNumericPrefixMatch(r))
                      => HasValuesOf(r, starting[1])
                /\ ExactOf(r) # {} => \E m \in ExactOf(r) : HasValuesOf(r, m)

\* C23: the merged table has one row per row of the ledger table, with
\* the ledger's accounts and amounts in the ledger's order
C23_OneRowPerLedgerRow ==
    (pc = "merge" /\ "merge" \in proc.done) =>
        /\ Len(tb_merged.rows) = Len(proc.before.rows)
        /\ \A i \in 1..Len(proc.before.rows) :
              /\ tb_merged.rows[i].Account = proc.before.rows[i].Account
              /\ tb_merged.rows[i].Debit = proc.before.rows[i].Debit
              /\ tb_merged.rows[i].Credit = proc.before.rows[i].Credit


\* ------------------------------------------------------------------------
\* Properties of the column identification of the two loaders
\* ------------------------------------------------------------------------
\* the first column outside taken whose lowercased name contains one of the
\* words, 0 if there is none
FirstWith(columns, words, taken) ==
    LET S == {i \in 1..Len(columns) :
                 i \notin taken /\ \E w \in words : In(w, lower(columns[i]))}
    IN  IF S = {} THEN 0 ELSE CHOOSE i \in S : \A j \in S : i <= j

\* the columns of the roles, taken in turn: each role independently of the
\* others, or each among the columns no earlier role has taken
RECURSIVE ChosenInTurn(_, _, _, _)
ChosenInTurn(columns, roles, chosen, independent) ==
    IF Len(chosen) = Len(roles) THEN chosen
    ELSE ChosenInTurn(columns, roles,
            Append(chosen,
                   FirstWith(columns, roles[Len(chosen) + 1],
                             IF independent THEN {} ELSE Range(chosen))),
            independent)

\* the trial balance loaded from proc.file is read from the columns chosen
\* for account, debit and credit, and the load raises if one is missing
TrialBalanceReadFrom(independent) ==
    LET h == FindHeaderRow(proc.file, 1)
    IN  h # 0 =>
            LET c == ChosenInTurn(MapStrip(proc.file[h]),
                                  <<{kw_account}, {kw_debit}, {kw_credit}>>,
                                  <<>>, independent)
            IN  /\ proc.tb.raised = (0 \in Range(c))
                /\ ~proc.tb.raised =>
                      \A i \in 1..Len(proc.tb.df.rows) :
                          LET line == proc.file[h + i]
                          IN  /\ proc.tb.df.rows[i].Account = ReadCell(line[c[1]])
                              /\ proc.tb.df.rows[i].Debit
                                    = clean_currency(ReadCell(line[c[2]]))
                              /\ proc.tb.df.rows[i].Credit
                                    = clean_currency(ReadCell(line[c[3]]))

\* the same for the general ledger, whose header is the first line and
\* whose description column may be missing
GeneralLedgerReadFrom(independent) ==
    LET c == ChosenInTurn(MapStrip(proc.file[1]),
                          <<{kw_account}, {kw_date},
                            {kw_description, kw_memo, kw_narration},
                            {kw_debit}, {kw_credit}>>,
                          <<>>, independent)
    IN  /\ proc.gl.raised = (0 \in {c[1], c[2], c[4], c[5]})
        /\ ~proc.gl.raised =>
              \A i \in 1..Len(proc.gl.df.rows) :
                  LET line == proc.file[1 + i]
                  IN  /\ proc.gl.df.rows[i].Account = ReadCell(line[c[1]])
                      /\ proc.gl.df.rows[i].Date = to_datetime(ReadCell(line[c[2]]))
                      /\ proc.gl.df.rows[i].Debit
                            = to_numeric_fillna(ReadCell(line[c[4]]))
                      /\ proc.gl.df.rows[i].Credit
                            = to_numeric_fillna(ReadCell(line[c[5]]))

\* C24 as stated: each role's column is the first column whose lowercased
\* name contains the role's word, chosen independently of the other roles
C24_ColumnsChosenIndependently ==
    /\ (pc = "load" /\ "tb" \in proc.done) => TrialBalanceReadFrom(TRUE)
    /\ (pc = "load" /\ "gl" \in proc.done) => GeneralLedgerReadFrom(TRUE)

\* C24 amended: a column takes one role only; the account column is the
\* first whose name contains account, and each later role (debit, then
\* credit; for the general ledger date, description, debit, credit) has the
\* first column containing its word that no earlier role has taken
C24_ColumnsChosenInTurn ==
    /\ (pc = "load" /\ "tb" \in proc.done) => TrialBalanceReadFrom(FALSE)
    /\ (pc = "load" /\ "gl" \in proc.done) => GeneralLedgerReadFrom(FALSE)

\* C24: a file headed Debit Account, Date, Debit, Credit was loaded by both
\* loaders, with the accounts from the first column and the debit amounts
\* from the third
C24_Witness ==
    /\ pc = "load"
    /\ {"tb", "gl"} \subseteq proc.done
    /\ proc.file[1] = <<hdr_DebitAccount, hdr_Date, hdr_Debit, hdr_Credit>>
    /\ proc.cell = cell_500_0
    /\ ~proc.tb.raised
    /\ ~proc.gl.raised
    /\ proc.tb.df.rows[1].Account = acct_cash
    /\ proc.tb.df.rows[1].Debit = Num(50000)
    /\ proc.gl.df.rows[1].Account = acct_cash
    /\ proc.gl.df.rows[1].Debit = Num(50000)


\* C25: no two columns of the table the parser returns have the same name
C25_CanonicalColumnsUnique ==
    (pc = "parsed" /\ error = "none") =>
        \A i, j \in 1..Len(classification_df.columns) :
            i # j => classification_df.columns[i] # classification_df.columns[j]


\* ------------------------------------------------------------------------
\* One browser session: main's auto-load block, session_manager's export,
\* import, auto-save and auto-load, and the reconciliation tab
\* ------------------------------------------------------------------------
\* a dict with no key
EmptyDict ==
    [a \in {} |-> [reconciled |-> TRUE]]

\* st.session_state after lines 76-91 of main in a new browser session; the
\* keys the reconciliation tab adds later are absent (present = FALSE, <<>>)
FreshSessionState ==
    [InitialSessionState EXCEPT !.session_auto_loaded = FALSE]
    @@ [reconciliation_state          |-> [present |-> FALSE, dict |-> EmptyDict],
        selected_account              |-> <<>>,
        show_reconciliation_interface |-> FALSE]

\* df.to_json(orient='split'): the column names and the rows as lists
to_json(df) ==
    [columns |-> df.columns,
     data    |-> [i \in 1..Len(df.rows) |->
                    [j \in 1..Len(df.columns) |-> df.rows[i][df.columns[j]]]]]

\* pd.read_json(..., orient='split'); the sample accounts hold letters, so
\* that the dtype inference leaves their column as text
read_json(json) ==
    [columns |-> json.columns,
     rows    |-> [i \in 1..Len(json.data) |->
                    [c \in Range(json.columns) |->
                        json.data[i][CHOOSE j \in 1..Len(json.columns) :
                                         json.columns[j] = c]]]]

\* a value of the file that read_json or b64decode cannot read
Corrupt ==
    [corrupt |-> TRUE]

\* session_data['data'] of export_session and of auto_save_session: a key
\* for every value that is set
ExportedData(s) ==
    (IF s.classification_df # None_df
     THEN [classification_df |-> to_json(s.classification_df)] ELSE EmptyDict)
    @@ (IF s.tb_merged # None_df
        THEN [tb_merged |-> to_json(s.tb_merged)] ELSE EmptyDict)
    @@ [classification_result |-> s.classification_result,
        reconciliation_result |-> s.reconciliation_result]
    @@ (IF s.excel_output # None_df
        THEN [excel_output |-> [b64 |-> s.excel_output]] ELSE EmptyDict)
    @@ (IF s.reconciliation_state.present
        THEN [reconciliation_state |-> s.reconciliation_state.dict] ELSE EmptyDict)
    @@ [analysis_complete |-> s.analysis_complete]

\* the bytes export_session returns
export_session(s) ==
    [valid |-> TRUE, data |-> ExportedData(s)]

\* the file auto_save_session writes
SessionFile(s) ==
    [saved |-> TRUE, valid |-> TRUE, data |-> ExportedData(s)]

\* the keys in the order import_session and auto_load_session restore them
RestoreOrder ==
    <<"classification_df", "tb_merged", "classification_result",
      "reconciliation_result", "excel_output", "reconciliation_state">>

\* the restore statements one after the other: a key that is missing is
\* skipped, a value that cannot be read raises and ends the call
RECURSIVE RestoreFields(_, _, _)
RestoreFields(s, data, k) ==
    IF k > Len(RestoreOrder)
    THEN [ok |-> TRUE,
          s  |-> [s EXCEPT !.analysis_complete =
                     IF "analysis_complete" \in DOMAIN data
                     THEN data.analysis_complete ELSE TRUE]]
    ELSE
      LET key == RestoreOrder[k]
      IN  IF key \notin DOMAIN data THEN RestoreFields(s, data, k + 1)
          ELSE IF key \in {"classification_df", "tb_merged", "excel_output"}
                  /\ data[key] = Corrupt
          THEN [ok |-> FALSE, s |-> s]
          ELSE RestoreFields(
                 [s EXCEPT ![key] =
                    CASE key \in {"classification_df", "tb_merged"} -> read_json(data[key])
                      [] key = "excel_output" -> data[key].b64
                      [] key = "reconciliation_state" ->
                            [present |-> TRUE, dict |-> data[key]]
                      [] OTHER -> data[key]],
                 data, k + 1)

\* import_session(uploaded_file): what it returns and the session state then
import_session(s, uploaded_file) ==
    IF ~uploaded_file.valid THEN [ok |-> FALSE, s |-> s]
    ELSE RestoreFields(s, uploaded_file.data, 1)

\* auto_load_session(session_id)
auto_load_session(s, files, session_id) ==
    IF ~files[session_id].saved THEN [ok |-> FALSE, s |-> s]
    ELSE IF ~files[session_id].valid THEN [ok |-> FALSE, s |-> s]
    ELSE RestoreFields(s, files[session_id].data, 1)

\* mutant of MainTop: session_auto_loaded is set after a restore only
MainTop_FlagOnSuccessOnly(s, files, url) ==
    IF ~s.session_auto_loaded /\ url # 0 /\ ~s.analysis_complete
    THEN LET r == auto_load_session(s, files, url)
         IN  [attempts |-> 1,
              call     |-> [name |-> "auto_load", ok |-> r.ok, before |-> s, after |-> r.s],
              s        |-> IF r.ok
                           THEN [r.s EXCEPT !.current_session_id = url,
                                            !.session_auto_loaded = TRUE]
                           ELSE r.s]
    ELSE [attempts |-> 0,
          call     |-> [name |-> "none", ok |-> TRUE, before |-> s, after |-> s],
          s        |-> s]

\* main, "Auto-load session from URL if present": the session state after
\* the block, whether auto_load_session was called, and the call
MainTop(s, files, url) ==
    IF ~s.session_auto_loaded /\ url # 0 /\ ~s.analysis_complete
    THEN LET r == auto_load_session(s, files, url)
         IN  [attempts |-> 1,
              call     |-> [name |-> "auto_load", ok |-> r.ok, before |-> s, after |-> r.s],
              s        |-> IF r.ok
                           THEN [r.s EXCEPT !.current_session_id = url,
                                            !.session_auto_loaded = TRUE]
                           ELSE [r.s EXCEPT !.session_auto_loaded = TRUE]]
    ELSE [attempts |-> 0,
          call     |-> [name |-> "none", ok |-> TRUE, before |-> s, after |-> s],
          s        |-> [s EXCEPT !.session_auto_loaded = TRUE]]

\* get_session_id(tb_merged): stands for the hash of the sorted account list
get_session_id(tb) ==
    {tb.rows[i].Account : i \in 1..Len(tb.rows)}

\* load_reconciliation_state(session_id): {} when there is no file
load_reconciliation_state(state_files, session_id) ==
    IF session_id \in DOMAIN state_files THEN state_files[session_id] ELSE EmptyDict

\* save_reconciliation_state(session_id, state)
save_reconciliation_state(state_files, session_id, state) ==
    (session_id :> state) @@ state_files

\* "Display results" of main: the bytes behind the Download Backup button,
\* then show_reconciliation_tab, which loads the reconciliation state when
\* the session has none
Display(s, state_files) ==
    IF ~s.analysis_complete
    THEN [s |-> s, offered |-> [exists |-> FALSE]]
    ELSE [offered |-> [exists |-> TRUE, bytes |-> export_session(s), from |-> s],
          s |-> IF s.tb_merged = None_df \/ s.reconciliation_state.present THEN s
                ELSE [s EXCEPT !.reconciliation_state =
                         [present |-> TRUE,
                          dict    |-> load_reconciliation_state(
                                         state_files, get_session_id(s.tb_merged))]]]

\* the script run that follows st.rerun(): the auto-load block, then the display
Rerun(s, files, state_files, url) ==
    LET top == MainTop(s, files, url)
    IN  Display(top.s, state_files) @@ [attempts |-> top.attempts]

\* mutant of MarkedState: the dict is started anew with the account's entry
MarkedState_OnlyThis(state, account) ==
    (account :> [reconciled |-> TRUE]) @@ EmptyDict

\* reconciliation_state[account] = {'reconciled': True, ...}; timestamp,
\* memo and the like are left out
MarkedState(state, account) ==
    (account :> [reconciled |-> TRUE]) @@ state

\* interactions with the page, at most
MaxEvents ==
    5

\* the session id of an earlier browser session whose file is on the server
OldId ==
    MaxRuns + 1

\* a session id whose file is no longer there
LostId ==
    MaxRuns + 2

\* steps 5 of main for each sample trial balance, the response being prose
Analysed ==
    [tb \in SampleLedgers |-> Step5(tb, << <<seg_prose>> >>)]

\* what the earlier browser session left: its trial balance analysed and
\* the account 1000 Cash marked reconciled
OldSessionState ==
    LET tb == CHOOSE t \in SampleLedgers : Len(t.rows) = 2
    IN  [FreshSessionState EXCEPT
            !.analysis_complete     = TRUE,
            !.classification_result = << <<seg_prose>> >>,
            !.classification_df     = Analysed[tb].classification_df,
            !.excel_output          = Analysed[tb].excel_output,
            !.tb_merged             = tb,
            !.reconciliation_state  =
                [present |-> TRUE, dict |-> MarkedState(EmptyDict, acct_cash)]]

\* session files a user can upload besides a downloaded backup: one with no
\* 'data' key, one whose tb_merged cannot be read
UploadedFiles ==
    {[valid |-> FALSE, data |-> EmptyDict],
     [valid |-> TRUE,
      data  |-> [classification_df |-> to_json(OldSessionState.classification_df),
                 tb_merged         |-> Corrupt,
                 analysis_complete |-> TRUE]]}

NoCall ==
    [name |-> "none", ok |-> TRUE, before |-> FreshSessionState,
     after |-> FreshSessionState]

InitSession ==
    /\ pc = "new"
    /\ tb_merged = None_df
    /\ classification_result = None
    /\ classification_df = None_df
    /\ excel_output = None_df
    /\ reconciliation_result = None
    /\ error = "none"
    /\ session_state = FreshSessionState
    /\ session_files = [id \in 1..LostId |->
                           IF id = OldId THEN SessionFile(OldSessionState) ELSE NoFile]
    /\ pre_state = InitialSessionState
    /\ run = 0
    /\ infer = NoInfer
    /\ \E url \in {0, OldId, LostId} :
          proc = [done        |-> {},
                  url         |-> url,
                  state_files |-> save_reconciliation_state(
                                     EmptyDict,
                                     get_session_id(OldSessionState.tb_merged),
                                     OldSessionState.reconciliation_state.dict),
                  offered     |-> [exists |-> FALSE],
                  user_file   |-> [exists |-> FALSE],
                  attempts    |-> 0,
                  events      |-> 0,
                  last        |-> "none",
                  restored    |-> FALSE,
                  show_filter |-> "All Accounts",
                  call        |-> NoCall]

SessionLocalsUnchanged ==
    UNCHANGED <<tb_merged, classification_result, classification_df, excel_output,
                reconciliation_result, error, pre_state, infer>>

\* the page is opened: the first run of main
FirstPass ==
    /\ pc = "new"
    /\ \E top \in {MainTop(session_state, session_files, proc.url)} :
       \E shown \in {Rerun(top.s, session_files, proc.state_files, proc.url)} :
          /\ session_state' = shown.s
          /\ proc' = [proc EXCEPT !.offered = shown.offered,
                                  !.attempts = @ + top.attempts + shown.attempts,
                                  !.last = "first",
                                  !.restored = top.call.name = "auto_load",
                                  !.call = top.call]
    /\ pc' = "idle"
    /\ UNCHANGED <<session_files, run>>
    /\ SessionLocalsUnchanged

\* Analyze is pressed and the run succeeds: results stored, session
\* auto-saved, id put in the URL, results displayed in the same run
Analyze ==
    /\ pc = "idle"
    /\ proc.events < MaxEvents
    /\ run < MaxRuns
    /\ \E tb \in SampleLedgers :
       \E top \in {MainTop(session_state, session_files, proc.url)} :
       \E stored \in {[top.s EXCEPT
                          !.analysis_complete     = TRUE,
                          !.classification_result = << <<seg_prose>> >>,
                          !.classification_df     = Analysed[tb].classification_df,
                          !.excel_output          = Analysed[tb].excel_output,
                          !.reconciliation_result = None,
                          !.tb_merged             = tb]} :
       \E id \in {IF stored.current_session_id = 0 THEN run + 1
                  ELSE stored.current_session_id} :
       \E shown \in {Display([stored EXCEPT !.current_session_id = id],
                             proc.state_files)} :
          /\ session_files' = [session_files EXCEPT ![id] = SessionFile(stored)]
          /\ session_state' = shown.s
          /\ proc' = [proc EXCEPT !.url = id,
                                  !.offered = shown.offered,
                                  !.attempts = @ + top.attempts,
                                  !.events = @ + 1,
                                  !.last = "analyze"]
    /\ run' = run + 1
    /\ pc' = pc
    /\ SessionLocalsUnchanged

\* Download Backup is clicked: the user keeps the bytes the last run put
\* behind the button, and the script runs again
Download ==
    /\ pc = "idle"
    /\ proc.events < MaxEvents
    /\ proc.offered.exists
    /\ \E shown \in {Rerun(session_state, session_files, proc.state_files, proc.url)} :
          /\ session_state' = shown.s
          /\ proc' = [proc EXCEPT !.user_file = proc.offered,
                                  !.offered = shown.offered,
                                  !.attempts = @ + shown.attempts,
                                  !.events = @ + 1,
                                  !.last = "download"]
    /\ UNCHANGED <<pc, session_files, run>>
    /\ SessionLocalsUnchanged

\* Restore Session is pressed with an uploaded file: import_session, then
\* st.rerun() if it returned True, the rest of the run if not
RestoreSession ==
    /\ pc = "idle"
    /\ proc.events < MaxEvents
    /\ \E f \in UploadedFiles \cup
                (IF proc.user_file.exists THEN {proc.user_file.bytes} ELSE {}) :
       \E top \in {MainTop(session_state, session_files, proc.url)} :
       \E r \in {import_session(top.s, f)} :
       \E shown \in {IF r.ok
                     THEN Rerun(r.s, session_files, proc.state_files, proc.url)
                     ELSE Display(r.s, proc.state_files) @@ [attempts |-> 0]} :
          /\ session_state' = shown.s
          /\ proc' = [proc EXCEPT
                         !.offered = shown.offered,
                         !.attempts = @ + top.attempts + shown.attempts,
                         !.events = @ + 1,
                         !.last = "restore",
                         !.restored = TRUE,
                         !.call = [name |-> "import", ok |-> r.ok,
                                   before |-> top.s, after |-> r.s,
                                   file |-> f]]
    /\ UNCHANGED <<pc, session_files, run>>
    /\ SessionLocalsUnchanged

\* the reconciliation tab is on the page
TabShown ==
    /\ pc = "idle"
    /\ proc.events < MaxEvents
    /\ session_state.analysis_complete
    /\ session_state.tb_merged # None_df
    /\ session_state.reconciliation_state.present

\* Reconcile is pressed for an account of the list
OpenAccount ==
    /\ TabShown
    /\ \E i \in 1..Len(session_state.classification_df.rows) :
       \E top \in {MainTop(session_state, session_files, proc.url)} :
       \E shown \in {Rerun([top.s EXCEPT
                               !.selected_account =
                                   Str(session_state.classification_df.rows[i].Account),
                               !.show_reconciliation_interface = TRUE],
                            session_files, proc.state_files, proc.url)} :
          /\ session_state' = shown.s
          /\ proc' = [proc EXCEPT !.offered = shown.offered,
                                  !.attempts = @ + top.attempts + shown.attempts,
                                  !.events = @ + 1,
                                  !.last = "open"]
    /\ UNCHANGED <<pc, session_files, run>>
    /\ SessionLocalsUnchanged

\* Back to Account List is pressed
BackToList ==
    /\ TabShown
    /\ session_state.show_reconciliation_interface
    /\ \E top \in {MainTop(session_state, session_files, proc.url)} :
       \E shown \in {Rerun([top.s EXCEPT !.show_reconciliation_interface = FALSE],
                           session_files, proc.state_files, proc.url)} :
          /\ session_state' = shown.s
          /\ proc' = [proc EXCEPT !.offered = shown.offered,
                                  !.attempts = @ + top.attempts + shown.attempts,
                                  !.events = @ + 1,
                                  !.last = "back"]
    /\ UNCHANGED <<pc, session_files, run>>
    /\ SessionLocalsUnchanged

\* another value is chosen in "Show accounts"
ChangeFilter ==
    /\ TabShown
    /\ \E f \in {"All Accounts", "Not Reconciled", "Reconciled"} \ {proc.show_filter} :
       \E shown \in {Rerun(session_state, session_files, proc.state_files, proc.url)} :
          /\ session_state' = shown.s
          /\ proc' = [proc EXCEPT !.show_filter = f,
                                  !.offered = shown.offered,
                                  !.attempts = @ + shown.attempts,
                                  !.events = @ + 1,
                                  !.last = "filter"]
    /\ UNCHANGED <<pc, session_files, run>>
    /\ SessionLocalsUnchanged

\* Mark as Reconciled is pressed for the selected account: the entry is
\* set, the state file of the trial balance written, the session
\* auto-saved, the interface closed and the script rerun
MarkAsReconciled ==
    /\ TabShown
    /\ session_state.show_reconciliation_interface
    /\ session_state.selected_account \in get_session_id(session_state.tb_merged)
    /\ \E top \in {MainTop(session_state, session_files, proc.url)} :
       \E marked \in {[top.s EXCEPT !.reconciliation_state.dict =
                          MarkedState(@, top.s.selected_account)]} :
       \E written \in {save_reconciliation_state(
                          proc.state_files, get_session_id(top.s.tb_merged),
                          marked.reconciliation_state.dict)} :
       \E files \in {IF marked.current_session_id # 0
                     THEN [session_files EXCEPT
                              ![marked.current_session_id] = SessionFile(marked)]
                     ELSE session_files} :
       \E shown \in {Rerun([marked EXCEPT !.show_reconciliation_interface = FALSE],
                           files, written, proc.url)} :
          /\ session_state' = shown.s
          /\ session_files' = files
          /\ proc' = [proc EXCEPT !.state_files = written,
                                  !.offered = shown.offered,
                                  !.attempts = @ + top.attempts + shown.attempts,
                                  !.events = @ + 1,
                                  !.last = "mark"]
    /\ UNCHANGED <<pc, run>>
    /\ SessionLocalsUnchanged

NextSession ==
    \/ FirstPass
    \/ Analyze
    \/ Download
    \/ RestoreSession
    \/ OpenAccount
    \/ BackToList
    \/ ChangeFilter
    \/ MarkAsReconciled

SpecSession ==
    InitSession /\ [][NextSession]_vars


\* ------------------------------------------------------------------------
\* Claims about the reconciliation marks and the saved sessions
\* ------------------------------------------------------------------------
\* the entry of the account in the dict says reconciled
MarkedIn(dict, account) ==
    account \in DOMAIN dict /\ dict[account].reconciled

\* the step is an operation of the reconciliation tab
TabOperation ==
    proc'.last \in {"open", "back", "filter", "mark"} /\ proc'.events > proc.events

\* C26: once an account is marked reconciled its entry says reconciled = true
\* and the dict with it is in the state file of the trial balance when the
\* script reruns; opening an account, going back to the list, filtering and
\* marking other accounts leave every reconciled entry reconciled
C26_ReconciledMarkPersists ==
    /\ [](proc.last = "mark" =>
            /\ MarkedIn(session_state.reconciliation_state.dict,
                        session_state.selected_account)
            /\ get_session_id(session_state.tb_merged) \in DOMAIN proc.state_files
            /\ proc.state_files[get_session_id(session_state.tb_merged)]
                   = session_state.reconciliation_state.dict)
    /\ [][TabOperation =>
            \A a \in DOMAIN session_state.reconciliation_state.dict :
                MarkedIn(session_state.reconciliation_state.dict, a)
                    => MarkedIn(session_state'.reconciliation_state.dict, a)]_vars

\* C26 witness: 2000 AP has just been marked and 1000 Cash, marked before
\* it, is still reconciled in the session and in the state file
C26_Witness ==
    /\ proc.last = "mark"
    /\ session_state.selected_account = acct_ap
    /\ MarkedIn(session_state.reconciliation_state.dict, acct_ap)
    /\ MarkedIn(session_state.reconciliation_state.dict, acct_cash)
    /\ MarkedIn(load_reconciliation_state(
                    proc.state_files, get_session_id(session_state.tb_merged)),
                acct_cash)

\* C27: as long as no session was restored, the reconciliation state in use
\* is the one recorded under the id of the trial balance on display, and a
\* state file holds marks for accounts of its own trial balance only
C27_MarksBelongToOwnTrialBalance ==
    (/\ pc = "idle"
     /\ ~proc.restored
     /\ session_state.tb_merged # None_df
     /\ session_state.reconciliation_state.present)
    => /\ session_state.reconciliation_state.dict
              = load_reconciliation_state(
                    proc.state_files, get_session_id(session_state.tb_merged))
       /\ \A id \in DOMAIN proc.state_files :
              DOMAIN proc.state_files[id] \subseteq id

\* the fields a session file carries
SessionFields ==
    {"classification_df", "tb_merged", "classification_result",
     "reconciliation_result", "excel_output", "reconciliation_state",
     "analysis_complete"}

\* C28: after import_session succeeded on bytes that export_session
\* produced, each field holds what it held when the bytes were produced
C28_ExportImportRoundTrip ==
    (/\ proc.last = "restore"
     /\ proc.call.ok
     /\ proc.user_file.exists
     /\ proc.call.file = proc.user_file.bytes)
    => \A k \in SessionFields : proc.call.after[k] = proc.user_file.from[k]

\* C29: a call of import_session or auto_load_session that returned False
\* left the session state as it was
C29_FailedRestoreLeavesState ==
    (proc.call.name # "none" /\ ~proc.call.ok)
    => proc.call.after = proc.call.before

\* C30: after the first pass through main session_auto_loaded is true, at
\* most one automatic restore was attempted in the browser session, and an
\* attempt is made only in a run that starts with analysis_complete false
C30_AutoRestoreAtMostOnce ==
    /\ [](pc = "idle" => session_state.session_auto_loaded /\ proc.attempts <= 1)
    /\ [][proc'.attempts > proc.attempts
             => ~session_state.analysis_complete /\ proc'.attempts = 1]_vars

\* C30 witness: the session of the URL was restored on the first pass and
\* the script has run again since, for a click in the reconciliation tab
C30_Witness ==
    /\ pc = "idle"
    /\ proc.attempts = 1
    /\ proc.last = "open"
    /\ session_state.analysis_complete
    /\ session_state.current_session_id = OldId
    /\ session_state.tb_merged = OldSessionState.tb_merged

=============================================================================
